---------------------------- MODULE Spec2Model ----------------------------
(***************************************************************************)
(* A model of unitconv (src/unitconv/__init__.py): the unit tables, the    *)
(* token index built by _UnitManager, the text pipeline of convert() and   *)
(* the number-facts lookup.  Texts are strings; SubSeq, Len and \o act on  *)
(* them character by character.                                            *)
(***************************************************************************)
EXTENDS Integers, Sequences, FiniteSets, TLC

(***************************************************************************)
(* Exact rational numbers.  The program computes with Python ints and      *)
(* floats; the values are held exactly here, with the Python type kept     *)
(* where the code depends on it.  The rounding of doubles is followed at   *)
(* the boundaries of the number facts (PRODUCT_ABOVE, PRODUCT_BELOW) and   *)
(* where a power of ten leaves the range of a double; a magnitude halfway  *)
(* between two 4-decimal values rounds either way.  Elsewhere the numbers  *)
(* of the input texts are short decimals that python holds and prints as   *)
(* written.  Integers are 32 bits wide: arithmetic that leaves that range  *)
(* stops the evaluation with an error and is never wrapped.                *)
(***************************************************************************)
R(n, d) == [n |-> n, d |-> d]

Abs(x) == IF x < 0 THEN -x ELSE x

RECURSIVE GCD(_, _)
GCD(a, b) == IF b = 0 THEN a ELSE GCD(b, a % b)

RNorm(r) ==
    LET g == GCD(Abs(r.n), r.d)
    IN  IF g = 0 THEN R(0, 1) ELSE R(r.n \div g, r.d \div g)

RMul(a, b) ==
    LET g1 == GCD(Abs(a.n), b.d)
        g2 == GCD(Abs(b.n), a.d)
    IN  IF a.n = 0 \/ b.n = 0 THEN R(0, 1)
        ELSE R((a.n \div g1) * (b.n \div g2), (a.d \div g2) * (b.d \div g1))

RInv(a) == IF a.n < 0 THEN R(-a.d, -a.n) ELSE R(a.d, a.n)

RDiv(a, b) == RMul(a, RInv(b))

RAdd(a, b) ==
    LET g == GCD(a.d, b.d)
    IN  RNorm(R(a.n * (b.d \div g) + b.n * (a.d \div g), a.d * (b.d \div g)))

RNeg(a) == R(-a.n, a.d)

RSub(a, b) == RAdd(a, RNeg(b))

RLeq(a, b) == RSub(a, b).n <= 0

RLess(a, b) == RSub(a, b).n < 0

REq(a, b) == RNorm(a) = RNorm(b)

RECURSIVE Pow(_, _)
Pow(b, k) == IF k = 0 THEN 1 ELSE b * Pow(b, k - 1)

(***************************************************************************)
(* An engine unit handle, as written in SUPPORTED_UNITS: _ureg.<base>,     *)
(* possibly raised to a power.                                             *)
(***************************************************************************)
H(base, pow) == [base |-> base, pow |-> pow]

(***************************************************************************)
(* The program's tables, in source order.                                  *)
(***************************************************************************)
SUPPORTED_UNITS == <<
    <<"are", <<>>, H("are", 1)>>,
    <<"celsius", <<>>, H("degC", 1)>>,
    <<"centimeter", <<>>, H("centimeter", 1)>>,
    <<"cubic_centimeter", <<>>, H("centimeter", 3)>>,
    <<"cubic_foot", <<>>, H("feet", 3)>>,
    <<"cubic_inch", <<>>, H("inch", 3)>>,
    <<"cubic_kilometer", <<>>, H("kilometer", 3)>>,
    <<"cubic_meter", <<>>, H("meter", 3)>>,
    <<"cubic_mile", <<>>, H("mile", 3)>>,
    <<"cubic_yard", <<>>, H("yard", 3)>>,
    <<"cup", <<>>, H("cup", 1)>>,
    <<"day", <<>>, H("day", 1)>>,
    <<"fahrenheit", <<>>, H("degF", 1)>>,
    <<"fluid_ounce", <<>>, H("floz", 1)>>,
    <<"foot", <<>>, H("feet", 1)>>,
    <<"gallon", <<>>, H("gallon", 1)>>,
    <<"gram", <<>>, H("grams", 1)>>,
    <<"hectare", <<R(100, 1)>>, H("are", 1)>>,
    <<"hour", <<>>, H("hour", 1)>>,
    <<"inch", <<>>, H("inch", 1)>>,
    <<"kelvin", <<>>, H("degK", 1)>>,
    <<"kilogram", <<>>, H("kilogram", 1)>>,
    <<"kilometer", <<>>, H("kilometer", 1)>>,
    <<"litre", <<>>, H("litres", 1)>>,
    <<"meter", <<>>, H("meter", 1)>>,
    <<"metric_ton", <<>>, H("metric_ton", 1)>>,
    <<"mile", <<>>, H("mile", 1)>>,
    <<"milligram", <<R(1, 1000)>>, H("gram", 1)>>,
    <<"millilitre", <<R(1, 1000)>>, H("litre", 1)>>,
    <<"minute", <<>>, H("minute", 1)>>,
    <<"month", <<>>, H("month", 1)>>,
    <<"ounce", <<>>, H("oz", 1)>>,
    <<"pint", <<>>, H("pint", 1)>>,
    <<"pound", <<>>, H("pound", 1)>>,
    <<"quart", <<>>, H("quart", 1)>>,
    <<"second", <<>>, H("second", 1)>>,
    <<"short_ton", <<>>, H("ton", 1)>>,
    <<"square_centimeter", <<>>, H("centimeter", 2)>>,
    <<"square_foot", <<>>, H("feet", 2)>>,
    <<"square_inch", <<>>, H("inch", 2)>>,
    <<"square_kilometer", <<>>, H("kilometer", 2)>>,
    <<"square_meter", <<>>, H("meter", 2)>>,
    <<"square_mile", <<>>, H("mile", 2)>>,
    <<"square_yard", <<>>, H("yard", 2)>>,
    <<"tablespoon", <<>>, H("tablespoon", 1)>>,
    <<"teaspoon", <<>>, H("teaspoon", 1)>>,
    <<"week", <<>>, H("week", 1)>>,
    <<"yard", <<>>, H("yard", 1)>>,
    <<"year", <<>>, H("year", 1)>> >>

UNIT_SYMBOLS == <<
    <<"c", "celsius", FALSE>>,
    <<"c", "cup", FALSE>>,
    <<"cc", "cubic_centimeter", FALSE>>,
    <<"cm", "centimeter", TRUE>>,
    <<"d", "day", FALSE>>,
    <<"f", "fahrenheit", FALSE>>,
    <<"f", "foot", TRUE>>,
    <<"ft", "foot", TRUE>>,
    <<"g", "gram", FALSE>>,
    <<"h", "hour", FALSE>>,
    <<"in", "inch", TRUE>>,
    <<"k", "kelvin", FALSE>>,
    <<"kg", "kilogram", FALSE>>,
    <<"km", "kilometer", TRUE>>,
    <<"l", "litre", FALSE>>,
    <<"m", "meter", TRUE>>,
    <<"m", "month", FALSE>>,
    <<"mg", "milligram", FALSE>>,
    <<"mi", "mile", TRUE>>,
    <<"ml", "millilitre", FALSE>>,
    <<"s", "second", FALSE>>,
    <<"t", "metric_ton", FALSE>>,
    <<"w", "week", FALSE>>,
    <<"y", "yard", TRUE>>,
    <<"y", "year", FALSE>>,
    <<"°c", "celsius", FALSE>>,
    <<"°f", "fahrenheit", FALSE>> >>

EXTRA_UNITS_INPUT == <<
    <<"ares", "are">>,
    <<"centimeters", "centimeter">>,
    <<"cubic centimeter", "cubic_centimeter">>,
    <<"cubic centimeters", "cubic_centimeter">>,
    <<"cubic cm", "cubic_centimeter">>,
    <<"cubic feet", "cubic_foot">>,
    <<"cubic foot", "cubic_foot">>,
    <<"cubic ft", "cubic_foot">>,
    <<"cubic in", "cubic_inch">>,
    <<"cubic inch", "cubic_inch">>,
    <<"cubic inches", "cubic_inch">>,
    <<"cubic kilometer", "cubic_kilometer">>,
    <<"cubic kilometers", "cubic_kilometer">>,
    <<"cubic km", "cubic_kilometer">>,
    <<"cubic m", "cubic_meter">>,
    <<"cubic meter", "cubic_meter">>,
    <<"cubic meters", "cubic_meter">>,
    <<"cubic mi", "cubic_mile">>,
    <<"cubic mile", "cubic_mile">>,
    <<"cubic miles", "cubic_mile">>,
    <<"cubic y", "cubic_yard">>,
    <<"cubic yard", "cubic_yard">>,
    <<"cubic yards", "cubic_yard">>,
    <<"cups", "cup">>,
    <<"days", "day">>,
    <<"feet", "foot">>,
    <<"floz", "fluid_ounce">>,
    <<"flozs", "fluid_ounce">>,
    <<"fluid ounce", "fluid_ounce">>,
    <<"fluid ounces", "fluid_ounce">>,
    <<"gal", "gallon">>,
    <<"gallons", "gallon">>,
    <<"grams", "gram">>,
    <<"hectares", "hectare">>,
    <<"hours", "hour">>,
    <<"inches", "inch">>,
    <<"kilograms", "kilogram">>,
    <<"kilometers", "kilometer">>,
    <<"lb", "pound">>,
    <<"lbs", "pound">>,
    <<"liter", "litre">>,
    <<"liters", "litre">>,
    <<"litres", "litre">>,
    <<"meters", "meter">>,
    <<"metric ton", "metric_ton">>,
    <<"metric tons", "metric_ton">>,
    <<"miles", "mile">>,
    <<"milligrams", "milligram">>,
    <<"milliliter", "millilitre">>,
    <<"milliliters", "millilitre">>,
    <<"millilitres", "millilitre">>,
    <<"min", "minute">>,
    <<"minutes", "minute">>,
    <<"months", "month">>,
    <<"ounce", "fluid_ounce">>,
    <<"ounces", "fluid_ounce">>,
    <<"ounces", "ounce">>,
    <<"oz", "fluid_ounce">>,
    <<"oz", "ounce">>,
    <<"ozs", "fluid_ounce">>,
    <<"ozs", "ounce">>,
    <<"pints", "pint">>,
    <<"pounds", "pound">>,
    <<"qt", "quart">>,
    <<"qts", "quart">>,
    <<"quarts", "quart">>,
    <<"sec", "second">>,
    <<"seconds", "second">>,
    <<"short ton", "short_ton">>,
    <<"short tons", "short_ton">>,
    <<"sq centimeter", "square_centimeter">>,
    <<"sq centimeters", "square_centimeter">>,
    <<"sq cm", "square_centimeter">>,
    <<"sq feet", "square_foot">>,
    <<"sq foot", "square_foot">>,
    <<"sq ft", "square_foot">>,
    <<"sq in", "square_inch">>,
    <<"sq inch", "square_inch">>,
    <<"sq inches", "square_inch">>,
    <<"sq kilometer", "square_kilometer">>,
    <<"sq kilometers", "square_kilometer">>,
    <<"sq km", "square_kilometer">>,
    <<"sq m", "square_meter">>,
    <<"sq meter", "square_meter">>,
    <<"sq meters", "square_meter">>,
    <<"sq mi", "square_mile">>,
    <<"sq mile", "square_mile">>,
    <<"sq miles", "square_mile">>,
    <<"sq y", "square_yard">>,
    <<"sq yard", "square_yard">>,
    <<"sq yards", "square_yard">>,
    <<"square centimeter", "square_centimeter">>,
    <<"square centimeters", "square_centimeter">>,
    <<"square cm", "square_centimeter">>,
    <<"square feet", "square_foot">>,
    <<"square foot", "square_foot">>,
    <<"square ft", "square_foot">>,
    <<"square in", "square_inch">>,
    <<"square inch", "square_inch">>,
    <<"square inches", "square_inch">>,
    <<"square kilometer", "square_kilometer">>,
    <<"square kilometers", "square_kilometer">>,
    <<"square km", "square_kilometer">>,
    <<"square m", "square_meter">>,
    <<"square meter", "square_meter">>,
    <<"square meters", "square_meter">>,
    <<"square mi", "square_mile">>,
    <<"square mile", "square_mile">>,
    <<"square miles", "square_mile">>,
    <<"square y", "square_yard">>,
    <<"square yard", "square_yard">>,
    <<"square yards", "square_yard">>,
    <<"tablespoons", "tablespoon">>,
    <<"tbs", "tablespoon">>,
    <<"tbsp", "tablespoon">>,
    <<"teaspoons", "teaspoon">>,
    <<"ton", "short_ton">>,
    <<"tonne", "metric_ton">>,
    <<"ts", "teaspoon">>,
    <<"tsp", "teaspoon">>,
    <<"weeks", "week">>,
    <<"yards", "yard">>,
    <<"years", "year">> >>

UNITS_OUTPUT == <<
    <<"are", "{} are", "{} ares">>,
    <<"celsius", "{}°C", "{}°C">>,
    <<"centimeter", "{} centimeter", "{} centimeters">>,
    <<"cubic_centimeter", "{} cubic centimeter", "{} cubic centimeters">>,
    <<"cubic_foot", "{} cubic foot", "{} cubic feet">>,
    <<"cubic_inch", "{} cubic inch", "{} cubic inches">>,
    <<"cubic_kilometer", "{} cubic kilometer", "{} cubic kilometers">>,
    <<"cubic_meter", "{} cubic meter", "{} cubic meters">>,
    <<"cubic_mile", "{} cubic mile", "{} cubic miles">>,
    <<"cubic_yard", "{} cubic yard", "{} cubic yards">>,
    <<"cup", "{} US cup", "{} US cups">>,
    <<"day", "{} day", "{} days">>,
    <<"fahrenheit", "{}°F", "{}°F">>,
    <<"fluid_ounce", "{} US fluid ounce", "{} US fluid ounces">>,
    <<"foot", "{} foot", "{} feet">>,
    <<"gallon", "{} US gallon", "{} US gallons">>,
    <<"gram", "{} gram", "{} grams">>,
    <<"hectare", "{} hectare", "{} hectares">>,
    <<"hour", "{} hour", "{} hours">>,
    <<"inch", "{} inch", "{} inches">>,
    <<"kelvin", "{}K", "{}K">>,
    <<"kilogram", "{} kilogram", "{} kilograms">>,
    <<"kilometer", "{} kilometer", "{} kilometers">>,
    <<"litre", "{} litre", "{} litres">>,
    <<"meter", "{} meter", "{} meters">>,
    <<"metric_ton", "{} metric ton", "{} metric tons">>,
    <<"mile", "{} mile", "{} miles">>,
    <<"milligram", "{} milligram", "{} milligrams">>,
    <<"millilitre", "{} millilitre", "{} millilitres">>,
    <<"minute", "{} minute", "{} minutes">>,
    <<"month", "{} month", "{} months">>,
    <<"ounce", "{} ounce", "{} ounces">>,
    <<"pint", "{} US pint", "{} US pints">>,
    <<"pound", "{} pound", "{} pounds">>,
    <<"quart", "{} quart", "{} quarts">>,
    <<"second", "{} second", "{} seconds">>,
    <<"square_centimeter", "{} square centimeter", "{} square centimeters">>,
    <<"square_foot", "{} square foot", "{} square feet">>,
    <<"square_inch", "{} square inch", "{} square inches">>,
    <<"square_kilometer", "{} square kilometer", "{} square kilometers">>,
    <<"square_meter", "{} square meter", "{} square meters">>,
    <<"square_mile", "{} square mile", "{} square miles">>,
    <<"square_yard", "{} square yard", "{} square yards">>,
    <<"tablespoon", "{} US tablespoon", "{} US tablespoons">>,
    <<"teaspoon", "{} US teaspoon", "{} US teaspoons">>,
    <<"short_ton", "{} short ton", "{} short tons">>,
    <<"week", "{} week", "{} weeks">>,
    <<"yard", "{} yard", "{} yards">>,
    <<"year", "{} year", "{} years">> >>

CONNECTORS == << "to", "in" >>

NUMBERS_INFO == <<
    <<R(16, 5), "meters", "wingspan", "a large andean condor">>,
    <<R(11, 2), "meters", "length", "a white wale">>,
    <<R(41, 1), "centimeters", "height", "a blue penguin">>,
    <<R(146, 1), "meters", "height", "the Great Pyramid of Giza">>,
    <<R(113, 1), "km/h", "top speed", "a cheetah">>,
    <<R(3475, 1), "kilometers", "diameter", "the Moon">>,
    <<R(1600, 1), "kilograms", "weight", " a white wale">>,
    <<R(8850, 1), "meters", "height", "Mount Everest">>,
    <<R(5500, 1), "°C", "temperature", "the surface of the Sun">>,
    <<R(12756, 1), "kilometers", "diameter", "the Earth">>,
    <<R(6430, 1), "kilometers", "lenght", "the Great Wall of China">>,
    <<R(100, 1), "°C", "temperature", "boiling water">> >>

SUGGESTED_SECOND_UNIT == <<
    <<"are", "square_yard">>,
    <<"celsius", "fahrenheit">>,
    <<"centimeter", "inch">>,
    <<"cubic_centimeter", "fluid_ounce">>,
    <<"cubic_foot", "litre">>,
    <<"cubic_inch", "millilitre">>,
    <<"cubic_kilometer", "cubic_mile">>,
    <<"cubic_meter", "cubic_yard">>,
    <<"cubic_mile", "cubic_kilometer">>,
    <<"cubic_yard", "cubic_meter">>,
    <<"cup", "millilitre">>,
    <<"day", "hour">>,
    <<"fahrenheit", "celsius">>,
    <<"fluid_ounce", "millilitre">>,
    <<"foot", "meter">>,
    <<"gallon", "litre">>,
    <<"gram", "ounce">>,
    <<"hectare", "square_mile">>,
    <<"hour", "second">>,
    <<"inch", "centimeter">>,
    <<"kilogram", "pound">>,
    <<"kilometer", "mile">>,
    <<"litre", "gallon">>,
    <<"meter", "yard">>,
    <<"mile", "kilometer">>,
    <<"minute", "second">>,
    <<"month", "day">>,
    <<"ounce", "gram">>,
    <<"pint", "litre">>,
    <<"pound", "kilogram">>,
    <<"quart", "litre">>,
    <<"square_centimeter", "square_inch">>,
    <<"square_foot", "square_meter">>,
    <<"square_inch", "square_centimeter">>,
    <<"square_kilometer", "square_mile">>,
    <<"square_meter", "square_foot">>,
    <<"square_mile", "square_kilometer">>,
    <<"square_yard", "square_meter">>,
    <<"tablespoon", "millilitre">>,
    <<"teaspoon", "millilitre">>,
    <<"week", "hour">>,
    <<"yard", "meter">>,
    <<"year", "day">> >>

NUMBERS_UNCERTAINTY == 3

SUPERSCRIPT_TWO == "SUPERSCRIPT_TWO"

SUPERSCRIPT_THREE == "SUPERSCRIPT_THREE"

(***************************************************************************)
(* Dictionary views of the tables.                                         *)
(***************************************************************************)
Keys(table) == { table[i][1] : i \in DOMAIN table }

Row(table, key) == table[CHOOSE i \in DOMAIN table : table[i][1] = key]

SupportedNames == Keys(SUPPORTED_UNITS)

Supported == [k \in SupportedNames |-> Row(SUPPORTED_UNITS, k)]

\* a variant in which one unit of the catalog has no templates
OutputWithoutHectare ==
    [k \in Keys(UNITS_OUTPUT) \ {"hectare"} |-> Row(UNITS_OUTPUT, k)]

Output == [k \in Keys(UNITS_OUTPUT) |-> Row(UNITS_OUTPUT, k)]

\* a variant whose values are the plural input names, not the canonical ones
SuggestedPlural ==
    [k \in Keys(SUGGESTED_SECOND_UNIT) |-> Row(SUGGESTED_SECOND_UNIT, k)[2] \o "s"]

Suggested == [k \in Keys(SUGGESTED_SECOND_UNIT) |-> Row(SUGGESTED_SECOND_UNIT, k)[2]]

(***************************************************************************)
(* The quantity engine (pint), as far as convert() uses it: every base     *)
(* unit has a dimensionality and a factor to the SI unit of its dimension. *)
(* A factor is kept as the exponents of its prime factors, so that the     *)
(* ratio of two units is exact; temperatures are affine.                   *)
(***************************************************************************)
Primes == <<2, 3, 5, 7, 11, 97, 127, 487, 6073>>

RECURSIVE Multiplicity(_, _)
Multiplicity(n, p) == IF n % p = 0 THEN 1 + Multiplicity(n \div p, p) ELSE 0

VecOfNat(n) == [i \in DOMAIN Primes |-> Multiplicity(n, Primes[i])]

VMul(a, b) == [i \in DOMAIN Primes |-> a[i] + b[i]]

VDiv(a, b) == [i \in DOMAIN Primes |-> a[i] - b[i]]

VPow(a, k) == [i \in DOMAIN Primes |-> a[i] * k]

VQ(n, d) == VDiv(VecOfNat(n), VecOfNat(d))

RECURSIVE VNum(_, _)
VNum(v, i) ==
    IF i > Len(Primes) THEN 1
    ELSE (IF v[i] > 0 THEN Pow(Primes[i], v[i]) ELSE 1) * VNum(v, i + 1)

RECURSIVE VDen(_, _)
VDen(v, i) ==
    IF i > Len(Primes) THEN 1
    ELSE (IF v[i] < 0 THEN Pow(Primes[i], -v[i]) ELSE 1) * VDen(v, i + 1)

DimLength == [L |-> 1, M |-> 0, T |-> 0, K |-> 0]

DimMass == [L |-> 0, M |-> 1, T |-> 0, K |-> 0]

DimTime == [L |-> 0, M |-> 0, T |-> 1, K |-> 0]

DimTemperature == [L |-> 0, M |-> 0, T |-> 0, K |-> 1]

DimArea == [L |-> 2, M |-> 0, T |-> 0, K |-> 0]

DimVolume == [L |-> 3, M |-> 0, T |-> 0, K |-> 0]

DimPow(d, k) == [L |-> d.L * k, M |-> d.M * k, T |-> d.T * k, K |-> d.K * k]

\* base unit name -> <<dimensionality, factor to the SI unit>>; the
\* imperial units hang on the inch, the gallon, the pound and the year
EngineUnits ==
    LET EngInch == VQ(127, 5000)
        EngGallon == VMul(VQ(231, 1), VPow(EngInch, 3))
        EngPound == VQ(45359237, 100000000)
        EngYear == VQ(31557600, 1)
    IN  [ are        |-> <<DimArea, VQ(100, 1)>>,
          centimeter |-> <<DimLength, VQ(1, 100)>>,
          feet       |-> <<DimLength, VMul(VQ(12, 1), EngInch)>>,
          inch       |-> <<DimLength, EngInch>>,
          kilometer  |-> <<DimLength, VQ(1000, 1)>>,
          meter      |-> <<DimLength, VQ(1, 1)>>,
          mile       |-> <<DimLength, VMul(VQ(63360, 1), EngInch)>>,
          yard       |-> <<DimLength, VMul(VQ(36, 1), EngInch)>>,
          cup        |-> <<DimVolume, VMul(VQ(1, 16), EngGallon)>>,
          floz       |-> <<DimVolume, VMul(VQ(1, 128), EngGallon)>>,
          gallon     |-> <<DimVolume, EngGallon>>,
          litre      |-> <<DimVolume, VQ(1, 1000)>>,
          litres     |-> <<DimVolume, VQ(1, 1000)>>,
          pint       |-> <<DimVolume, VMul(VQ(1, 8), EngGallon)>>,
          quart      |-> <<DimVolume, VMul(VQ(1, 4), EngGallon)>>,
          tablespoon |-> <<DimVolume, VMul(VQ(1, 256), EngGallon)>>,
          teaspoon   |-> <<DimVolume, VMul(VQ(1, 768), EngGallon)>>,
          gram       |-> <<DimMass, VQ(1, 1000)>>,
          grams      |-> <<DimMass, VQ(1, 1000)>>,
          kilogram   |-> <<DimMass, VQ(1, 1)>>,
          metric_ton |-> <<DimMass, VQ(1000, 1)>>,
          oz         |-> <<DimMass, VMul(VQ(1, 16), EngPound)>>,
          pound      |-> <<DimMass, EngPound>>,
          ton        |-> <<DimMass, VMul(VQ(2000, 1), EngPound)>>,
          second     |-> <<DimTime, VQ(1, 1)>>,
          minute     |-> <<DimTime, VQ(60, 1)>>,
          hour       |-> <<DimTime, VQ(3600, 1)>>,
          day        |-> <<DimTime, VQ(86400, 1)>>,
          week       |-> <<DimTime, VQ(604800, 1)>>,
          month      |-> <<DimTime, VMul(VQ(1, 12), EngYear)>>,
          year       |-> <<DimTime, EngYear>>,
          degC       |-> <<DimTemperature, VQ(1, 1)>>,
          degF       |-> <<DimTemperature, VQ(5, 9)>>,
          degK       |-> <<DimTemperature, VQ(1, 1)>> ]

\* offset of a temperature scale: kelvin = (degrees + offset) * factor
EngineOffset ==
    [ degC |-> R(5463, 20), degF |-> R(45967, 100), degK |-> R(0, 1) ]

\* u.dimensionality
Dimensionality(h) == DimPow(EngineUnits[h.base][1], h.pow)

EngineFactor(h) == VPow(EngineUnits[h.base][2], h.pow)

RECURSIVE StripPrimes(_, _)
StripPrimes(n, i) ==
    IF i > Len(Primes) THEN n
    ELSE StripPrimes(n \div Pow(Primes[i], Multiplicity(n, Primes[i])), i + 1)

\* magnitude * factor, the factor given by its prime exponents
Scale(magnitude, v) ==
    IF magnitude.n = 0 THEN R(0, 1)
    ELSE LET an == Abs(magnitude.n)
             w  == VMul(v, VDiv(VecOfNat(an), VecOfNat(magnitude.d)))
             num == StripPrimes(an, 1) * VNum(w, 1)
             den == StripPrimes(magnitude.d, 1) * VDen(w, 1)
         IN  RNorm(R(IF magnitude.n < 0 THEN -num ELSE num, den))

\* Quantity(magnitude, h_from).to(h_to).magnitude, for units of one dimensionality
EngineTo(magnitude, h_from, h_to) ==
    IF h_from = h_to THEN magnitude
    ELSE IF Dimensionality(h_from) = DimTemperature
    THEN LET kelvin == Scale(RAdd(magnitude, EngineOffset[h_from.base]), EngineFactor(h_from))
         IN  RSub(Scale(kelvin, VPow(EngineFactor(h_to), -1)), EngineOffset[h_to.base])
    ELSE Scale(magnitude, VDiv(EngineFactor(h_from), EngineFactor(h_to)))

(***************************************************************************)
(* _UnitManager.__init__: the token index _units, useful_tokens and        *)
(* complex_units.                                                          *)
(***************************************************************************)
SeqToSet(s) == { s[i] : i \in DOMAIN s }

\* the second column of the first n rows whose first column is key, in order
TargetsOf(table, key, n) ==
    LET Test(row) == row[1] = key
        rows == SelectSeq(SubSeq(table, 1, n), Test)
    IN  [i \in DOMAIN rows |-> rows[i][2]]

\* _u[key] once the catalog, every row of EXTRA_UNITS_INPUT and the first n
\* rows of UNIT_SYMBOLS have been entered (setdefault(key, []).append(...))
UnitsAt(key, n) ==
    (IF key \in SupportedNames THEN <<key>> ELSE <<>>)
        \o TargetsOf(EXTRA_UNITS_INPUT, key, Len(EXTRA_UNITS_INPUT))
        \o TargetsOf(UNIT_SYMBOLS, key, n)

\* a variant that takes every symbol for a linear one
EverySymbolRow == DOMAIN UNIT_SYMBOLS

LinearRows == { i \in DOMAIN UNIT_SYMBOLS : UNIT_SYMBOLS[i][3] }

\* the last row of UNIT_SYMBOLS that assigns _u[key] for a marker key
MarkerRow(key, marker) ==
    LET rows == { i \in LinearRows : UNIT_SYMBOLS[i][1] \o marker = key }
    IN  CHOOSE i \in rows : \A j \in rows : j <= i

PlainKeys ==
    SupportedNames \cup Keys(EXTRA_UNITS_INPUT) \cup Keys(UNIT_SYMBOLS)

SquareKeys == { UNIT_SYMBOLS[i][1] \o SUPERSCRIPT_TWO : i \in LinearRows }

CubicKeys == { UNIT_SYMBOLS[i][1] \o SUPERSCRIPT_THREE : i \in LinearRows }

\* the keys of _u when line 396 runs for row i of UNIT_SYMBOLS
KeysAt(i) ==
    SupportedNames \cup Keys(EXTRA_UNITS_INPUT)
        \cup { UNIT_SYMBOLS[j][1] : j \in 1..i }
        \cup { UNIT_SYMBOLS[j][1] \o SUPERSCRIPT_TWO : j \in { k \in LinearRows : k < i } }
        \cup { UNIT_SYMBOLS[j][1] \o SUPERSCRIPT_THREE : j \in { k \in LinearRows : k < i } }

\* the rows of UNIT_SYMBOLS at which _u['square_' + unit] (line 396) or
\* _u['cubic_' + unit] (line 397) raises KeyError
InitKeyErrors ==
    { i \in LinearRows :
        \/ ("square_" \o UNIT_SYMBOLS[i][2]) \notin KeysAt(i)
        \/ ("cubic_" \o UNIT_SYMBOLS[i][2])
               \notin KeysAt(i) \cup {UNIT_SYMBOLS[i][1] \o SUPERSCRIPT_TWO} }

\* unit_manager._units
Units ==
    [ key \in PlainKeys \cup SquareKeys \cup CubicKeys |->
        IF key \in SquareKeys
        THEN LET i == MarkerRow(key, SUPERSCRIPT_TWO)
             IN  UnitsAt("square_" \o UNIT_SYMBOLS[i][2], i)
        ELSE IF key \in CubicKeys
        THEN LET i == MarkerRow(key, SUPERSCRIPT_THREE)
             IN  UnitsAt("cubic_" \o UNIT_SYMBOLS[i][2], i)
        ELSE UnitsAt(key, Len(UNIT_SYMBOLS)) ]

\* unit_manager.connectors
Connectors == CONNECTORS

\* unit_manager.useful_tokens; the code only tests part == token against it
UsefulTokens == DOMAIN Units \cup SeqToSet(CONNECTORS)

HasSpace(s) == \E i \in 1..Len(s) : SubSeq(s, i, i) = " "

\* a variant that keeps the rows in the order of the table
ComplexUnitsUnsorted ==
    LET Complex(row) == HasSpace(row[1])
    IN  SelectSeq(EXTRA_UNITS_INPUT, Complex)

\* unit_manager.complex_units: the rows of EXTRA_UNITS_INPUT with a space in
\* the name, sorted by descending length of the name; sorted() is stable
ComplexUnits ==
    LET Complex(row) == HasSpace(row[1])
        rows == SelectSeq(EXTRA_UNITS_INPUT, Complex)
        Rank(k) == Cardinality({ j \in DOMAIN rows :
                       \/ Len(rows[j][1]) > Len(rows[k][1])
                       \/ (Len(rows[j][1]) = Len(rows[k][1]) /\ j <= k) })
    IN  [ r \in DOMAIN rows |-> rows[CHOOSE k \in DOMAIN rows : Rank(k) = r] ]

(***************************************************************************)
(* The objects every call shares.  unit_manager is the module's one        *)
(* _UnitManager (line 437) and tables holds the module's dictionaries and  *)
(* the connector list; the steps of convert() read them from here.         *)
(***************************************************************************)
VARIABLES unit_manager, tables

\* _UnitManager(): the attributes __init__ sets
UnitManager ==
    [ units         |-> Units,
      useful_tokens |-> UsefulTokens,
      complex_units |-> ComplexUnits,
      connectors    |-> Connectors ]

\* the module globals that convert() and the unit manager look into
ModuleTables ==
    [ SUPPORTED_UNITS       |-> Supported,
      UNITS_OUTPUT          |-> Output,
      SUGGESTED_SECOND_UNIT |-> Suggested,
      CONNECTORS            |-> CONNECTORS ]

(***************************************************************************)
(* Characters and strings.                                                 *)
(***************************************************************************)
\* the character of s at position i (1-based), "" outside s
At(s, i) == IF 1 <= i /\ i <= Len(s) THEN SubSeq(s, i, i) ELSE ""

Min(S) == CHOOSE x \in S : \A y \in S : x <= y

Max(S) == CHOOSE x \in S : \A y \in S : y <= x

Chars(s) == { At(s, i) : i \in 1..Len(s) }

DigitChars == "0123456789"

LowerChars == "abcdefghijklmnopqrstuvwxyz"

UpperChars == "ABCDEFGHIJKLMNOPQRSTUVWXYZ"

\* \d
IsDigit(c) == c \in Chars(DigitChars)

\* [a-zA-Z]
IsAsciiLetter(c) == c \in Chars(LowerChars) \cup Chars(UpperChars)

\* \w on the model's alphabet: letters, digits, the underscore and the
\* superscript digits (which str.isalnum() accepts); \W is its complement
IsWordChar(c) == IsAsciiLetter(c) \/ IsDigit(c) \/ c \in {"_", "²", "³"}

Whitespace == {" ", "\t", "\n", "\r"}

\* str.strip()
Strip(s) ==
    LET keep == { i \in 1..Len(s) : At(s, i) \notin Whitespace }
    IN  IF keep = {} THEN "" ELSE SubSeq(s, Min(keep), Max(keep))

LowerChar(c) ==
    IF c \in Chars(UpperChars)
    THEN At(LowerChars, CHOOSE i \in 1..Len(UpperChars) : At(UpperChars, i) = c)
    ELSE c

\* str.lower()
RECURSIVE Lower(_)
Lower(s) ==
    IF Len(s) <= 1 THEN LowerChar(s)
    ELSE LET h == Len(s) \div 2
         IN  Lower(SubSeq(s, 1, h)) \o Lower(SubSeq(s, h + 1, Len(s)))

\* the first position from i on that holds no space (Len(s) + 1 if none)
SkipSpaces(s, i) == Min({ j \in i..(Len(s) + 1) : At(s, j) # " " })

(***************************************************************************)
(* The square and cubic marker patterns of convert():                      *)
(*     " *?\*\* *?D| *?\^ *?D|(?<=[a-zA-Z])D|S"                            *)
(* with D the digit and S the superscript character.  MarkLen is the       *)
(* length of the match that starts at position i, 0 if there is none.      *)
(***************************************************************************)
MarkLen(s, i, digit, sup) ==
    LET j  == SkipSpaces(s, i)
        op == IF SubSeq(s, j, Min({j + 1, Len(s)})) = "**" THEN j + 2
              ELSE IF At(s, j) = "^" THEN j + 1
              ELSE 0
        k  == IF op = 0 THEN 0 ELSE SkipSpaces(s, op)
    IN  IF op # 0 /\ At(s, k) = digit THEN k + 1 - i
        ELSE IF At(s, i) = digit /\ IsAsciiLetter(At(s, i - 1)) THEN 1
        ELSE IF At(s, i) = sup THEN 1
        ELSE 0

\* re.sub(pattern, marker, s) from position i on: leftmost matches, left to right
RECURSIVE SubMark(_, _, _, _, _)
SubMark(s, i, digit, sup, marker) ==
    LET starts == { j \in i..Len(s) : MarkLen(s, j, digit, sup) > 0 }
    IN  IF starts = {} THEN SubSeq(s, i, Len(s))
        ELSE LET j == Min(starts)
             IN  SubSeq(s, i, j - 1) \o marker
                    \o SubMark(s, j + MarkLen(s, j, digit, sup), digit, sup, marker)

\* lines 483-486
NormalizeMarks(text) ==
    SubMark(SubMark(text, 1, "2", "²", SUPERSCRIPT_TWO), 1, "3", "³", SUPERSCRIPT_THREE)

\* the positions where pat occurs in s
Occurrences(s, pat) ==
    { j \in 1..(Len(s) - Len(pat) + 1) : SubSeq(s, j, j + Len(pat) - 1) = pat }

\* re.sub(pat, rep, s) for a pattern of letters and spaces, from position i on
RECURSIVE ReplaceAll(_, _, _, _)
ReplaceAll(s, i, pat, rep) ==
    LET occ == { j \in Occurrences(s, pat) : j >= i }
    IN  IF occ = {} THEN SubSeq(s, i, Len(s))
        ELSE SubSeq(s, i, Min(occ) - 1) \o rep \o ReplaceAll(s, Min(occ) + Len(pat), pat, rep)

\* for cu, real in unit_manager.complex_units[i:]: text = re.sub(cu, real, text);
\* a pattern that does not occur leaves the text as it is
RECURSIVE ReplaceComplex(_, _)
ReplaceComplex(text, i) ==
    LET hits == { j \in i..Len(unit_manager.complex_units) : Occurrences(text, unit_manager.complex_units[j][1]) # {} }
    IN  IF hits = {} THEN text
        ELSE ReplaceComplex(ReplaceAll(text, 1, unit_manager.complex_units[Min(hits)][1], unit_manager.complex_units[Min(hits)][2]),
                            Min(hits) + 1)

\* lines 480-490: the text convert() searches for a number
Normalize(src) == ReplaceComplex(NormalizeMarks(Lower(Strip(src))), 1)

(***************************************************************************)
(* RE_NUMBER and re.search.  A match is a record: start and end are the    *)
(* span (0-based, end exclusive) and int, frac, exp the named groups, a    *)
(* group that took no part being "".                                       *)
(***************************************************************************)
IsSeparator(c) == c \in {".", ","}

\* (?=\d|\.\d|\,\d)
NumberStartsAt(s, i) ==
    IsDigit(At(s, i)) \/ (IsSeparator(At(s, i)) /\ IsDigit(At(s, i + 1)))

\* the first position from i on that holds no digit
SkipDigits(s, i) == Min({ j \in i..(Len(s) + 1) : ~IsDigit(At(s, j)) })

MatchNumberAt(s, i) ==
    LET intEnd  == SkipDigits(s, i)
        hasFrac == IsSeparator(At(s, intEnd))
        fracEnd == IF hasFrac THEN SkipDigits(s, intEnd + 1) ELSE intEnd
        sign    == IF At(s, fracEnd + 1) \in {"-", "+"} THEN fracEnd + 2 ELSE fracEnd + 1
        hasExp  == At(s, fracEnd) \in {"e", "E"} /\ IsDigit(At(s, sign))
        expEnd  == IF hasExp THEN SkipDigits(s, sign) ELSE fracEnd
    IN  [ start |-> i - 1,
          end   |-> expEnd - 1,
          int   |-> SubSeq(s, i, intEnd - 1),
          frac  |-> IF hasFrac THEN SubSeq(s, intEnd + 1, fracEnd - 1) ELSE "",
          exp   |-> IF hasExp THEN SubSeq(s, fracEnd + 1, expEnd - 1) ELSE "" ]

NumberStarts(s) == { i \in 1..Len(s) : NumberStartsAt(s, i) }

\* a variant without the lookahead: where no number starts, the optional
\* groups still match the empty string at the start of the text
SearchNumberOrEmpty(s) ==
    IF NumberStarts(s) = {}
    THEN <<[start |-> 0, end |-> 0, int |-> "", frac |-> "", exp |-> ""]>>
    ELSE <<MatchNumberAt(s, Min(NumberStarts(s)))>>

\* re.search(RE_NUMBER, text, re.VERBOSE); <<>> stands for None
SearchNumber(s) ==
    IF NumberStarts(s) = {} THEN <<>> ELSE <<MatchNumberAt(s, Min(NumberStarts(s)))>>

(***************************************************************************)
(* re.split('\W', s, re.UNICODE): the third positional argument of         *)
(* re.split is maxsplit, and re.UNICODE is 32.                             *)
(***************************************************************************)
RE_UNICODE == 32

Split(s, maxsplit) ==
    LET seps == { i \in 1..Len(s) : ~IsWordChar(At(s, i)) }
        used == { i \in seps : Cardinality({ j \in seps : j < i }) < maxsplit }
        n    == Cardinality(used)
        Cut(k) == IF k = 0 THEN 0
                  ELSE IF k = n + 1 THEN Len(s) + 1
                  ELSE CHOOSE i \in used : Cardinality({ j \in used : j <= i }) = k
    IN  [ k \in 1..(n + 1) |-> SubSeq(s, Cut(k - 1) + 1, Cut(k) - 1) ]

\* the parts that are useful tokens, in order (lines 503-512)
IsUseful(part) == part \in unit_manager.useful_tokens

TokensOf(s) == SelectSeq(Split(s, RE_UNICODE), IsUseful)

(***************************************************************************)
(* Python numbers.  A number is [float, val]: val is the exact value and   *)
(* float tells a Python float from a Python int.                           *)
(***************************************************************************)
PyInt(n) == [float |-> FALSE, val |-> R(n, 1)]

PyFloat(r) == [float |-> TRUE, val |-> RNorm(r)]

DigitVal(c) == (CHOOSE i \in 1..Len(DigitChars) : At(DigitChars, i) = c) - 1

\* int(s) for a string of digits
RECURSIVE ToNat(_)
ToNat(s) ==
    IF s = "" THEN 0
    ELSE ToNat(SubSeq(s, 1, Len(s) - 1)) * 10 + DigitVal(At(s, Len(s)))

\* int(s) for an optional sign and digits
ToInt(s) ==
    IF At(s, 1) = "-" THEN -ToNat(SubSeq(s, 2, Len(s)))
    ELSE IF At(s, 1) = "+" THEN ToNat(SubSeq(s, 2, Len(s)))
    ELSE ToNat(s)

\* sys.float_info.max_10_exp: 10 ** e converts to a float only up to here
FLOAT_MAX_10_EXP == 308

\* 10 ** e is 0.0 below this exponent
FLOAT_MIN_10_EXP == -323

\* parse_number(m): [exc, num]; exc is "" or the exception raised
ParseNumber(m) ==
    LET intpart == IF m.int # "" THEN PyInt(ToNat(m.int)) ELSE PyInt(0)
        \* result += float(fracpart) / 10 ** len(fracpart)
        mantissa == IF m.frac # ""
                    THEN PyFloat(RAdd(intpart.val, R(ToNat(m.frac), Pow(10, Len(m.frac)))))
                    ELSE intpart
        e == ToInt(m.exp)
    IN  IF m.exp = "" THEN [exc |-> "", num |-> mantissa]
        ELSE IF e >= 0
        THEN \* 10 ** e is an int; float * int converts the int to a float
             IF mantissa.float /\ e > FLOAT_MAX_10_EXP
             THEN [exc |-> "OverflowError", num |-> mantissa]
             ELSE [exc |-> "",
                   num |-> [float |-> mantissa.float,
                            val   |-> RMul(mantissa.val, R(Pow(10, e), 1))]]
        ELSE \* 10 ** e is a float
             IF e < FLOAT_MIN_10_EXP
             THEN [exc |-> "", num |-> PyFloat(R(0, 1))]
             ELSE [exc |-> "", num |-> PyFloat(RMul(mantissa.val, R(1, Pow(10, -e))))]

\* str(n) for a natural number
RECURSIVE NatToStr(_)
NatToStr(n) ==
    IF n < 10 THEN At(DigitChars, n + 1)
    ELSE NatToStr(n \div 10) \o At(DigitChars, (n % 10) + 1)

\* the digits of rem / den after the decimal point, den having only 2 and 5
\* as prime factors
RECURSIVE FracDigits(_, _)
FracDigits(rem, den) ==
    IF rem = 0 THEN ""
    ELSE At(DigitChars, ((rem * 10) \div den) + 1) \o FracDigits((rem * 10) % den, den)

\* number.is_integer()
IsInteger(num) == RNorm(num.val).d = 1

\* str(number): an int as its digits, a float by repr, which for the short
\* decimals of the model is plain decimal notation from 1e-4 up (and below
\* 1e16) and exponent notation under 1e-4
PyStr(num) ==
    LET v == RNorm(num.val)
        whole == NatToStr(Abs(v.n) \div v.d)
        sign == IF v.n < 0 THEN "-" ELSE ""
    IN  IF ~num.float THEN sign \o whole
        ELSE IF v.d = 1 THEN sign \o whole \o ".0"
        ELSE IF v.n * 10000 >= v.d
        THEN sign \o whole \o "." \o FracDigits(Abs(v.n) % v.d, v.d)
        ELSE \* exponent notation: the digits, then e-0k (k below 10 in the model)
             LET k == CHOOSE e \in 5..9 : /\ Abs(v.n) * Pow(10, e) >= v.d
                                          /\ Abs(v.n) * Pow(10, e - 1) < v.d
                 digits == RNorm(R(Abs(v.n) * Pow(10, k), v.d))
             IN  sign \o NatToStr(digits.n \div digits.d)
                      \o (IF digits.d = 1 THEN "" ELSE "." \o FracDigits(digits.n % digits.d, digits.d))
                      \o "e-0" \o NatToStr(k)

(***************************************************************************)
(* _numbers_info                                                           *)
(***************************************************************************)
\* value * c is a product of doubles.  At a number that equals the exact
\* product, the comparison sees the rounding of the product: these are the
\* facts and coefficients whose double product lies above, and below, the
\* double of the boundary number written in its shortest decimal form.
PRODUCT_ABOVE ==
    { <<1, "0.4">>, <<1, "0.9">>, <<1, "1.1">>, <<2, "1.1">>, <<3, "0.4">>,
      <<4, "0.4">>, <<4, "1.1">>, <<5, "1.1">>, <<6, "1.1">>, <<7, "1.1">>,
      <<9, "1.1">>, <<10, "0.4">>, <<11, "1.1">>, <<12, "1.1">> }

PRODUCT_BELOW == { <<3, "0.6">>, <<10, "0.6">> }

Coefficient(c) ==
    CASE c = "0.4" -> R(4, 10) [] c = "0.6" -> R(6, 10) [] c = "0.9" -> R(9, 10)
      [] c = "1.1" -> R(11, 10) [] c = "1.7" -> R(17, 10) [] c = "100" -> R(100, 1)

\* value * c <= number, for the fact at index i
ProductLeq(i, c, number) ==
    LET exact == RMul(NUMBERS_INFO[i][1], Coefficient(c))
    IN  IF REq(exact, number) THEN <<i, c>> \notin PRODUCT_ABOVE ELSE RLess(exact, number)

\* number <= value * c, for the fact at index i
ProductGeq(i, c, number) ==
    LET exact == RMul(NUMBERS_INFO[i][1], Coefficient(c))
    IN  IF REq(exact, number) THEN <<i, c>> \notin PRODUCT_BELOW ELSE RLess(number, exact)

\* lines 446-452: the message the fact at index i gives, "" if it does not match
FactKind(i, number) ==
    IF ProductLeq(i, "0.4", number) /\ ProductGeq(i, "0.6", number) THEN "half"
    ELSE IF ProductLeq(i, "0.9", number) /\ ProductGeq(i, "1.1", number) THEN "close"
    ELSE IF ProductLeq(i, "1.7", number) /\ ProductGeq(i, "100", number) THEN "times"
    ELSE ""

\* int(round(x)) for x >= 0: to the nearest integer, a half to the even one
RoundHalfEven(x) ==
    LET q == x.n \div x.d
        r == x.n % x.d
    IN  IF 2 * r < x.d THEN q
        ELSE IF 2 * r > x.d THEN q + 1
        ELSE IF q % 2 = 0 THEN q ELSE q + 1

\* the ratio that orders abs(log10(number) - log10(value))
Distance(number, value) ==
    IF RLeq(value, number) THEN RDiv(number, value) ELSE RDiv(value, number)

\* vals['mult'] = int(round(number / value))
FactMult(num, i) == RoundHalfEven(RDiv(num.val, NUMBERS_INFO[i][1]))

\* msg.format(**vals)
FactText(num, i, kind) ==
    LET fact == NUMBERS_INFO[i]
        head == PyStr(num) \o " " \o fact[2]
        tail == " the " \o fact[3] \o " of " \o fact[4]
    IN  IF kind = "half" THEN head \o " is about half of" \o tail
        ELSE IF kind = "close" THEN head \o " is close to" \o tail
        ELSE head \o " is around " \o NatToStr(FactMult(num, i)) \o " times" \o tail

\* results: (distance, text) of every matching fact, in table order; each
\* entry also remembers its fact and the message chosen for it
FactResults(num) ==
    LET Matches(i) == FactKind(i, num.val) # ""
        idx == SelectSeq([i \in DOMAIN NUMBERS_INFO |-> i], Matches)
    IN  [ k \in DOMAIN idx |->
            [ fact     |-> idx[k],
              kind     |-> FactKind(idx[k], num.val),
              distance |-> Distance(num.val, NUMBERS_INFO[idx[k]][1]),
              text     |-> FactText(num, idx[k], FactKind(idx[k], num.val)) ] ]

\* a variant that leaves the results in table order
Unsorted(results) == results

\* sorted(results): by ascending distance; facts at one distance keep their order
SortedResults(results) ==
    LET Rank(k) == Cardinality({ j \in DOMAIN results :
                        \/ RLess(results[j].distance, results[k].distance)
                        \/ (REq(results[j].distance, results[k].distance) /\ j <= k) })
    IN  [ r \in DOMAIN results |-> results[CHOOSE k \in DOMAIN results : Rank(k) = r] ]

\* [x[1] for x in sorted(results)[:NUMBERS_UNCERTAINTY]]
FactChoices(results, uncertainty) ==
    LET sorted == SortedResults(results)
    IN  [ k \in 1..Min({uncertainty, Len(sorted)}) |-> sorted[k].text ]

(***************************************************************************)
(* _UnitManager.get_units_info and suggest                                 *)
(***************************************************************************)
UnitInfo(name) ==
    [ mult         |-> tables.SUPPORTED_UNITS[name][2],
      unit         |-> tables.SUPPORTED_UNITS[name][3],
      human_single |-> tables.UNITS_OUTPUT[name][2],
      human_plural |-> tables.UNITS_OUTPUT[name][3] ]

\* the list useful: the pairs of the cross product, in loop order, whose
\* dimensionality agrees
UsefulPairs(base_units_from, base_units_to) ==
    LET n == Len(base_units_to)
        cross == [ k \in 1..(Len(base_units_from) * n) |->
                     <<base_units_from[((k - 1) \div n) + 1], base_units_to[((k - 1) % n) + 1]>> ]
        SameDim(p) == Dimensionality(tables.SUPPORTED_UNITS[p[1]][3]) = Dimensionality(tables.SUPPORTED_UNITS[p[2]][3])
    IN  SelectSeq(cross, SameDim)

\* a variant that takes the first pair when several agree
GetUnitsInfoFirst(unit_token_from, unit_token_to) ==
    LET useful == UsefulPairs(unit_manager.units[unit_token_from], unit_manager.units[unit_token_to])
    IN  IF Len(useful) >= 1
        THEN << <<UnitInfo(useful[1][1]), UnitInfo(useful[1][2])>> >>
        ELSE <<>>

\* get_units_info for tokens of the index: <<>> is None, else <<(from, to)>>
GetUnitsInfo(unit_token_from, unit_token_to) ==
    LET useful == UsefulPairs(unit_manager.units[unit_token_from], unit_manager.units[unit_token_to])
    IN  IF Len(useful) = 1
        THEN << <<UnitInfo(useful[1][1]), UnitInfo(useful[1][2])>> >>
        ELSE <<>>

\* a variant that goes through the candidates from the last one
SuggestLast(unit_token_from) ==
    LET base_units_from == unit_manager.units[unit_token_from]
        hits == { i \in DOMAIN base_units_from : base_units_from[i] \in DOMAIN tables.SUGGESTED_SECOND_UNIT }
    IN  IF hits = {} THEN <<>> ELSE <<tables.SUGGESTED_SECOND_UNIT[base_units_from[Max(hits)]]>>

\* suggest for a token of the index: <<>> is None, else <<unit name>>
Suggest(unit_token_from) ==
    LET base_units_from == unit_manager.units[unit_token_from]
        hits == { i \in DOMAIN base_units_from : base_units_from[i] \in DOMAIN tables.SUGGESTED_SECOND_UNIT }
    IN  IF hits = {} THEN <<>> ELSE <<tables.SUGGESTED_SECOND_UNIT[base_units_from[Min(hits)]]>>

(***************************************************************************)
(* convert(): connector stripping, the quantity and its formatting.        *)
(***************************************************************************)
\* tokens.remove(x): the first occurrence
RemoveFirst(tokens, x) ==
    LET i == Min({ j \in DOMAIN tokens : tokens[j] = x })
    IN  SubSeq(tokens, 1, i - 1) \o SubSeq(tokens, i + 1, Len(tokens))

\* a variant without the break: every connector of the list is taken out once
StripEveryConnector(tokens, i) ==
    LET Without(ts, c) == IF c \in SeqToSet(ts) THEN RemoveFirst(ts, c) ELSE ts
        rest == Without(Without(tokens, unit_manager.connectors[1]), unit_manager.connectors[2])
    IN  [ok |-> Len(rest) = 2, tokens |-> rest]

\* a variant that breaks at the first connector it removes, whatever is left
StripOneConnector(tokens, i) ==
    LET first == unit_manager.connectors[1]
        second == unit_manager.connectors[2]
    IN  IF first \in SeqToSet(tokens) THEN [ok |-> TRUE, tokens |-> RemoveFirst(tokens, first)]
        ELSE IF second \in SeqToSet(tokens) THEN [ok |-> TRUE, tokens |-> RemoveFirst(tokens, second)]
        ELSE [ok |-> FALSE, tokens |-> tokens]

\* lines 536-543: [ok, tokens]; ok is FALSE when the loop ends without break
RECURSIVE StripConnectors(_, _)
StripConnectors(tokens, i) ==
    IF i > Len(unit_manager.connectors) THEN [ok |-> FALSE, tokens |-> tokens]
    ELSE IF unit_manager.connectors[i] \in SeqToSet(tokens)
    THEN LET rest == RemoveFirst(tokens, unit_manager.connectors[i])
         IN  IF Len(rest) = 2 THEN [ok |-> TRUE, tokens |-> rest]
             ELSE StripConnectors(rest, i + 1)
    ELSE StripConnectors(tokens, i + 1)

\* a variant that takes the source from the first token in both cases
TFromPosFirst(found_before) == IF found_before THEN 1 ELSE 1

\* lines 546-552, 1-based
TFromPos(found_before) == IF found_before THEN 2 ELSE 1

TToPos(found_before) == IF found_before THEN 1 ELSE 2


\* a variant that does not divide by the multiplier of the destination
ConvertedUndivided(num, unit_from, unit_to) ==
    LET to_convert == IF unit_from.mult # <<>> THEN RMul(num.val, unit_from.mult[1]) ELSE num.val
    IN  EngineTo(to_convert, unit_from.unit, unit_to.unit)

\* lines 563-572: the converted magnitude
Converted(num, unit_from, unit_to) ==
    LET to_convert == IF unit_from.mult # <<>> THEN RMul(num.val, unit_from.mult[1]) ELSE num.val
        converted == EngineTo(to_convert, unit_from.unit, unit_to.unit)
    IN  IF unit_to.mult # <<>> THEN RDiv(converted, unit_to.mult[1]) ELSE converted

\* a magnitude rounded to 4 decimals: sign, whole part, and the decimals as
\* a number of ten-thousandths
Rounded(neg, whole, frac) == [neg |-> neg, whole |-> whole, frac |-> frac]

\* round(x, 4).  A value that lies halfway between two neighbours in decimal
\* is, as a binary float, a little above or below it: both are possible.
Round4(x) ==
    LET a  == Abs(x.n)
        q  == a \div x.d
        r1 == (a % x.d) * 10
        r2 == (r1 % x.d) * 10
        r3 == (r2 % x.d) * 10
        r4 == (r3 % x.d) * 10
        f  == (r1 \div x.d) * 1000 + (r2 \div x.d) * 100 + (r3 \div x.d) * 10 + (r4 \div x.d)
        r  == r4 % x.d
        down == Rounded(x.n < 0, q, f)
        up   == IF f = 9999 THEN Rounded(x.n < 0, q + 1, 0) ELSE Rounded(x.n < 0, q, f + 1)
    IN  IF 2 * r < x.d THEN {down}
        ELSE IF 2 * r > x.d THEN {up}
        ELSE {down, up}

\* "%04d" % n
Pad4(n) ==
    (IF n < 10 THEN "000" ELSE IF n < 100 THEN "00" ELSE IF n < 1000 THEN "0" ELSE "")
        \o NatToStr(n)

\* a variant that keeps the zeros of "%.4f"
KeepZeros(s) == s

\* while nicer_res[-1] == '0': nicer_res = nicer_res[:-1]
RECURSIVE StripZeros(_)
StripZeros(s) ==
    IF At(s, Len(s)) = "0" THEN StripZeros(SubSeq(s, 1, Len(s) - 1)) ELSE s

\* rounded.is_integer()
IsWhole(rounded) == rounded.frac = 0

\* rounded == 1
IsOne(rounded) == ~rounded.neg /\ rounded.whole = 1 /\ rounded.frac = 0

\* lines 579-587
NicerRes(rounded) ==
    LET sign == IF rounded.neg THEN "-" ELSE ""
    IN  IF IsWhole(rounded)
        THEN (IF rounded.whole = 0 THEN "" ELSE sign) \o NatToStr(rounded.whole)
        ELSE StripZeros(sign \o NatToStr(rounded.whole) \o "." \o Pad4(rounded.frac))

\* lines 593-596
NicerOrig(num) ==
    IF num.float /\ IsInteger(num) THEN PyStr(PyInt(RNorm(num.val).n)) ELSE PyStr(num)

\* template.format(x) for a template with one "{}"
Format(template, x) == ReplaceAll(template, 1, "{}", x)

\* a variant that never takes the singular template
HumanToPlural(rounded, unit_to) == unit_to.human_plural

\* lines 576-581
HumanTo(rounded, unit_to) ==
    IF IsWhole(rounded) /\ IsOne(rounded) THEN unit_to.human_single ELSE unit_to.human_plural

\* lines 576, 591-592
HumanFrom(num, unit_from) ==
    IF REq(num.val, R(1, 1)) THEN unit_from.human_single ELSE unit_from.human_plural

\* line 598
Sentence(h_from, n_orig, h_to, n_res) ==
    Format(h_from, n_orig) \o " = " \o Format(h_to, n_res)

\* a variant that only asks the number to open the text
NumberOpensText(text, m) == m.start = 0

\* line 517: the match m covers the whole text
NumberIsAlone(text, m) == m.end - m.start = Len(Strip(text))

(***************************************************************************)
(* The program as a state machine.  A call of convert() runs through the   *)
(* steps of its body; pc is the position in the body and the other         *)
(* variables are its locals, <<>> or "" while unset.  marked is text as   *)
(* lines 483-486 leave it, before line 489; results is the list            *)
(* _numbers_info builds and choices the list it hands to random.choice.    *)
(* The module global NUMBERS_UNCERTAINTY can be patched between calls, as  *)
(* the tests do.  matched_before, matched_after and numbers_info_called    *)
(* record what the call did: the tokens each of the two loops collected    *)
(* and whether _numbers_info was called.                                   *)
(***************************************************************************)
VARIABLES numbers_uncertainty, pc, source, marked, text, m, number, tokens,
          found_tokens_before, t_from, t_to, units_info, converted, rounded,
          human_from, human_to, nicer_res, nicer_orig, results, choices,
          result, matched_before, matched_after, numbers_info_called

vars == <<unit_manager, tables, numbers_uncertainty, pc, source, marked, text,
          m, number, tokens, found_tokens_before, t_from, t_to, units_info,
          converted, rounded, human_from, human_to, nicer_res, nicer_orig,
          results, choices, result, matched_before, matched_after,
          numbers_info_called>>

\* the outcome of a call
ReturnNone == [kind |-> "none", text |-> ""]

ReturnText(s) == [kind |-> "text", text |-> s]

Raise(exc) == [kind |-> "raise", text |-> exc]

\* the locals of a call that begins, or that has returned
ResetLocals ==
    /\ marked' = ""
    /\ text' = ""
    /\ m' = <<>>
    /\ number' = <<>>
    /\ tokens' = <<>>
    /\ found_tokens_before' = FALSE
    /\ t_from' = ""
    /\ t_to' = ""
    /\ units_info' = <<>>
    /\ converted' = <<>>
    /\ rounded' = <<>>
    /\ human_from' = ""
    /\ human_to' = ""
    /\ nicer_res' = ""
    /\ nicer_orig' = ""
    /\ results' = <<>>
    /\ choices' = <<>>
    /\ matched_before' = <<>>
    /\ matched_after' = <<>>
    /\ numbers_info_called' = FALSE

Init ==
    /\ unit_manager = UnitManager
    /\ tables = ModuleTables
    /\ numbers_uncertainty = NUMBERS_UNCERTAINTY
    /\ pc = "idle"
    /\ source = ""
    /\ result = ReturnNone
    /\ marked = ""
    /\ text = ""
    /\ m = <<>>
    /\ number = <<>>
    /\ tokens = <<>>
    /\ found_tokens_before = FALSE
    /\ t_from = ""
    /\ t_to = ""
    /\ units_info = <<>>
    /\ converted = <<>>
    /\ rounded = <<>>
    /\ human_from = ""
    /\ human_to = ""
    /\ nicer_res = ""
    /\ nicer_orig = ""
    /\ results = <<>>
    /\ choices = <<>>
    /\ matched_before = <<>>
    /\ matched_after = <<>>
    /\ numbers_info_called = FALSE

\* the call ends with the given outcome
Finish(r) ==
    /\ pc' = "done"
    /\ result' = r

\* convert(source) is called
Call(s) ==
    /\ pc = "idle"
    /\ pc' = "normalize"
    /\ source' = s
    /\ result' = ReturnNone
    /\ ResetLocals
    /\ UNCHANGED <<unit_manager, tables, numbers_uncertainty>>

\* the call returns to its caller and its locals are gone
Return ==
    /\ pc = "done"
    /\ pc' = "idle"
    /\ source' = ""
    /\ result' = ReturnNone
    /\ ResetLocals
    /\ UNCHANGED <<unit_manager, tables, numbers_uncertainty>>

\* a test patches unitconv.NUMBERS_UNCERTAINTY
PatchUncertainty(u) ==
    /\ pc = "idle"
    /\ u # numbers_uncertainty
    /\ numbers_uncertainty' = u
    /\ UNCHANGED <<unit_manager, tables, pc, source, marked, text, m, number,
                   tokens, found_tokens_before, t_from, t_to, units_info,
                   converted, rounded, human_from, human_to, nicer_res,
                   nicer_orig, results, choices, result, matched_before,
                   matched_after, numbers_info_called>>

\* lines 480-490
NormalizeText ==
    /\ pc = "normalize"
    /\ marked' = NormalizeMarks(Lower(Strip(source)))
    /\ text' = Normalize(source)
    /\ pc' = "search"
    /\ UNCHANGED <<unit_manager, tables, numbers_uncertainty, source, m,
                   number, tokens, found_tokens_before, t_from, t_to,
                   units_info, converted, rounded, human_from, human_to,
                   nicer_res, nicer_orig, results, choices, result,
                   matched_before, matched_after, numbers_info_called>>

\* lines 493-498
FindNumber ==
    /\ pc = "search"
    /\ m' = SearchNumber(text)
    /\ IF m' = <<>>
       THEN /\ Finish(ReturnNone)
            /\ UNCHANGED number
       ELSE LET parsed == ParseNumber(m'[1])
            IN  IF parsed.exc # ""
                THEN /\ Finish(Raise(parsed.exc))
                     /\ UNCHANGED number
                ELSE /\ number' = <<parsed.num>>
                     /\ pc' = "collect"
                     /\ UNCHANGED result
    /\ UNCHANGED <<unit_manager, tables, numbers_uncertainty, source, marked,
                   text, tokens, found_tokens_before, t_from, t_to,
                   units_info, converted, rounded, human_from, human_to,
                   nicer_res, nicer_orig, results, choices, matched_before,
                   matched_after, numbers_info_called>>

\* lines 501-512
CollectTokens ==
    /\ pc = "collect"
    /\ matched_before' = TokensOf(SubSeq(text, 1, m[1].start))
    /\ matched_after' = TokensOf(SubSeq(text, m[1].end + 1, Len(text)))
    /\ tokens' = matched_before' \o matched_after'
    /\ found_tokens_before' = (matched_before' # <<>>)
    /\ pc' = "select"
    /\ UNCHANGED <<unit_manager, tables, numbers_uncertainty, source, marked,
                   text, m, number, t_from, t_to, units_info, converted,
                   rounded, human_from, human_to, nicer_res, nicer_orig,
                   results, choices, result, numbers_info_called>>

\* lines 515-522, with _numbers_info (lines 440-460)
ZeroTokens ==
    /\ pc = "select"
    /\ Len(tokens) = 0
    /\ IF NumberIsAlone(text, m[1])
       THEN /\ numbers_info_called' = TRUE
            /\ results' = FactResults(number[1])
            /\ choices' = FactChoices(results', numbers_uncertainty)
            /\ IF results' = <<>>
               THEN Finish(ReturnNone)
               ELSE \E i \in DOMAIN choices' : Finish(ReturnText(choices'[i]))
       ELSE /\ Finish(ReturnNone)
            /\ UNCHANGED <<numbers_info_called, results, choices>>
    /\ UNCHANGED <<unit_manager, tables, numbers_uncertainty, source, marked,
                   text, m, number, tokens, found_tokens_before, t_from, t_to,
                   units_info, converted, rounded, human_from, human_to,
                   nicer_res, nicer_orig, matched_before, matched_after>>

\* a variant of lines 524-533 in which the suggested unit also lands in the
\* candidate list of the token, the list suggest() went through
OneTokenShared ==
    /\ pc = "select"
    /\ Len(tokens) = 1
    /\ IF tokens[1] \notin DOMAIN unit_manager.units
       THEN /\ Finish(Raise("KeyError"))
            /\ UNCHANGED <<tokens, found_tokens_before, unit_manager>>
       ELSE LET suggested == Suggest(tokens[1])
            IN  IF suggested = <<>>
                THEN /\ Finish(ReturnNone)
                     /\ UNCHANGED <<tokens, found_tokens_before, unit_manager>>
                ELSE /\ tokens' = Append(tokens, suggested[1])
                     /\ unit_manager' =
                          [unit_manager EXCEPT !.units[tokens[1]] = Append(@, suggested[1])]
                     /\ found_tokens_before' = FALSE
                     /\ pc' = "pair"
                     /\ UNCHANGED result
    /\ UNCHANGED <<tables, numbers_uncertainty, source, marked, text, m,
                   number, t_from, t_to, units_info, converted, rounded,
                   human_from, human_to, nicer_res, nicer_orig, results,
                   choices, matched_before, matched_after, numbers_info_called>>

\* lines 524-533
OneToken ==
    /\ pc = "select"
    /\ Len(tokens) = 1
    /\ IF tokens[1] \notin DOMAIN unit_manager.units
       THEN /\ Finish(Raise("KeyError"))
            /\ UNCHANGED <<tokens, found_tokens_before>>
       ELSE LET suggested == Suggest(tokens[1])
            IN  IF suggested = <<>>
                THEN /\ Finish(ReturnNone)
                     /\ UNCHANGED <<tokens, found_tokens_before>>
                ELSE /\ tokens' = Append(tokens, suggested[1])
                     /\ found_tokens_before' = FALSE
                     /\ pc' = "pair"
                     /\ UNCHANGED result
    /\ UNCHANGED <<unit_manager, tables, numbers_uncertainty, source, marked,
                   text, m, number, t_from, t_to, units_info, converted,
                   rounded, human_from, human_to, nicer_res, nicer_orig,
                   results, choices, matched_before, matched_after,
                   numbers_info_called>>

\* two tokens were collected: neither line 524 nor line 535 applies
TwoTokens ==
    /\ pc = "select"
    /\ Len(tokens) = 2
    /\ pc' = "pair"
    /\ UNCHANGED <<unit_manager, tables, numbers_uncertainty, source, marked,
                   text, m, number, tokens, found_tokens_before, t_from, t_to,
                   units_info, converted, rounded, human_from, human_to,
                   nicer_res, nicer_orig, results, choices, result,
                   matched_before, matched_after, numbers_info_called>>

\* lines 535-543
ManyTokens ==
    /\ pc = "select"
    /\ Len(tokens) > 2
    /\ LET stripped == StripConnectors(tokens, 1)
       IN  /\ tokens' = stripped.tokens
           /\ IF stripped.ok
              THEN pc' = "pair" /\ UNCHANGED result
              ELSE Finish(ReturnNone)
    /\ UNCHANGED <<unit_manager, tables, numbers_uncertainty, source, marked,
                   text, m, number, found_tokens_before, t_from, t_to,
                   units_info, converted, rounded, human_from, human_to,
                   nicer_res, nicer_orig, results, choices, matched_before,
                   matched_after, numbers_info_called>>

\* lines 546-561
PairUnits ==
    /\ pc = "pair"
    /\ t_from' = tokens[TFromPos(found_tokens_before)]
    /\ t_to' = tokens[TToPos(found_tokens_before)]
    /\ IF t_from' \notin DOMAIN unit_manager.units \/ t_to' \notin DOMAIN unit_manager.units
       THEN /\ Finish(Raise("KeyError"))
            /\ UNCHANGED units_info
       ELSE /\ units_info' = GetUnitsInfo(t_from', t_to')
            /\ IF units_info' = <<>>
               THEN Finish(ReturnNone)
               ELSE pc' = "convert" /\ UNCHANGED result
    /\ UNCHANGED <<unit_manager, tables, numbers_uncertainty, source, marked,
                   text, m, number, tokens, found_tokens_before, converted,
                   rounded, human_from, human_to, nicer_res, nicer_orig,
                   results, choices, matched_before, matched_after,
                   numbers_info_called>>

\* lines 563-573
ConvertQuantity ==
    /\ pc = "convert"
    /\ LET unit_from == units_info[1][1]
           unit_to == units_info[1][2]
       IN  IF Dimensionality(unit_from.unit) # Dimensionality(unit_to.unit)
           THEN /\ Finish(ReturnNone)      \* pint.unit.DimensionalityError
                /\ UNCHANGED converted
           ELSE /\ converted' = <<Converted(number[1], unit_from, unit_to)>>
                /\ pc' = "format"
                /\ UNCHANGED result
    /\ UNCHANGED <<unit_manager, tables, numbers_uncertainty, source, marked,
                   text, m, number, tokens, found_tokens_before, t_from, t_to,
                   units_info, rounded, human_from, human_to, nicer_res,
                   nicer_orig, results, choices, matched_before,
                   matched_after, numbers_info_called>>

\* lines 575-598
FormatResult ==
    /\ pc = "format"
    /\ \E r \in Round4(converted[1]) : rounded' = <<r>>
    /\ human_to' = HumanTo(rounded'[1], units_info[1][2])
    /\ nicer_res' = NicerRes(rounded'[1])
    /\ human_from' = HumanFrom(number[1], units_info[1][1])
    /\ nicer_orig' = NicerOrig(number[1])
    /\ Finish(ReturnText(Sentence(human_from', nicer_orig', human_to', nicer_res')))
    /\ UNCHANGED <<unit_manager, tables, numbers_uncertainty, source, marked,
                   text, m, number, tokens, found_tokens_before, t_from, t_to,
                   units_info, converted, results, choices, matched_before,
                   matched_after, numbers_info_called>>

\* the steps of the body of convert()
Step ==
    \/ NormalizeText
    \/ FindNumber
    \/ CollectTokens
    \/ ZeroTokens
    \/ OneToken
    \/ TwoTokens
    \/ ManyTokens
    \/ PairUnits
    \/ ConvertQuantity
    \/ FormatResult

(***************************************************************************)
(* The input texts.  Words of a small vocabulary around one number, in     *)
(* every order; a number with two units, for the formatting; and a number  *)
(* alone or nearly alone, for the number facts.                            *)
(***************************************************************************)
MaxWords == 3

MaxNumber == 120

MaxUncertainty == 4

\* unit tokens with one and with several candidates, with and without a
\* suggested second unit, the two connectors, and a word that is no token
Vocabulary == {"m", "y", "in", "to", "celsius", "kelvin", "chanchos"}

WordSeqs == UNION { [1..k -> Vocabulary] : k \in 0..MaxWords }

RECURSIVE Join(_)
Join(ws) ==
    IF ws = <<>> THEN ""
    ELSE IF Len(ws) = 1 THEN ws[1]
    ELSE ws[1] \o " " \o Join(Tail(ws))

\* the words with the number text n put after the first p of them
AroundNumber(ws, p, n) == Join(SubSeq(ws, 1, p) \o <<n>> \o SubSeq(ws, p + 1, Len(ws)))

WordInputs ==
    { Join(ws) : ws \in WordSeqs }
        \cup { AroundNumber(x[1], x[2], "5") :
                 x \in { y \in WordSeqs \X (0..MaxWords) : y[2] <= Len(y[1]) } }

\* numbers whose value python cannot hold, or holds only as zero
ExtremeInputs == {"1.5e400", "1.5e400 m", "1e-400 m in", "5e0 m in", "1.5e1 m in"}

FormatNumbers ==
    {"0", "1", "1.0", "1.00", "3", "12", "32", "100", "0.5", "2.54", "30.48",
     "0.125", "0.3937", ".5", "1,5", "212", "33.8"}

FormatUnits == {"cm", "in", "feet", "meters", "celsius", "fahrenheit"}

FormatInputs ==
    { n \o " " \o a \o " " \o b : n \in FormatNumbers, a \in FormatUnits, b \in FormatUnits }

\* a number that is alone, or nearly
AloneInputs == {"100", " 100 ", "100x", "100 chanchos", "stuff 100", "100 x", "x100", "100.", "100 ."}

Inputs == WordInputs \cup ExtremeInputs \cup FormatInputs \cup AloneInputs

\* every boundary of every fact, in its shortest decimal form
BoundaryNumbers ==
    {"1.28", "1.92", "2.88", "3.52", "5.44", "320",
     "2.2", "3.3", "4.95", "6.05", "9.35", "550",
     "16.4", "24.6", "36.9", "45.1", "69.7", "4100",
     "58.4", "87.6", "131.4", "160.6", "248.2", "14600",
     "45.2", "67.8", "101.7", "124.3", "192.1", "11300",
     "1390", "2085", "3127.5", "3822.5", "5907.5", "347500",
     "640", "960", "1440", "1760", "2720", "160000",
     "3540", "5310", "7965", "9735", "15045", "885000",
     "2200", "3300", "4950", "6050", "9350", "550000",
     "5102.4", "7653.6", "11480.4", "14031.6", "21685.2", "1275600",
     "2572", "3858", "5787", "7073", "10931", "643000",
     "40", "60", "90", "110", "170", "10000"}

FactNumbers ==
    { NatToStr(k) : k \in 0..MaxNumber } \cup BoundaryNumbers
        \cup {"130", "7800", "17800", "5500", "6000", "250", "50.0", "1.27",
              "1.93", "10001", "169", "171", "3.2", "8"}

FactInputs == FactNumbers \cup AloneInputs \cup {" 5500 ", "1e2"}

Next ==
    \/ \E s \in Inputs : Call(s)
    \/ Step
    \/ Return

Spec == Init /\ [][Next]_vars

\* the number facts, under every patched NUMBERS_UNCERTAINTY
NextFacts ==
    \/ \E s \in FactInputs : Call(s)
    \/ \E u \in 1..MaxUncertainty : PatchUncertainty(u)
    \/ NormalizeText
    \/ FindNumber
    \/ CollectTokens
    \/ ZeroTokens
    \/ Return

SpecFacts == Init /\ [][NextFacts]_vars

(***************************************************************************)
(* Texts with the other kinds of unit names: symbols with a square or      *)
(* cubic mark, names of several words, units with a multiplier.            *)
(***************************************************************************)
\* a symbol or a name with each way of writing a square or a cube
MarkInputs ==
    {"5", "5 m2", "5 m²", "5 m^2", "5 m **2", "5 ft3", "5 y³ in ft3",
     "5 cm ^ 3 to in**3", "in2 5 m2", "5 y2 in m2", "5 c2", "5 m3 in m2",
     "5 meters2", "5 m2 in to ft2 ft2", "5 m32", "5 m23", "5 m22", "5 m^32",
     "5 m³2", "5 m2^3", "5 m^^2", "5 m**", "5 m 2", "5 m**2 3", "5 ft ^  2 to m  **  2"}

MaxTokens == 5

\* three tokens and more, all after the number or the first of them before
\* it: a unit name, a symbol of two units, and the two connectors, of which
\* 'in' is a unit symbol too
ConnectorInputs ==
    LET words == {"feet", "m", "to", "in"}
        seqs == UNION { [1..k -> words] : k \in 3..MaxTokens }
    IN  { AroundNumber(ws, 0, "5") : ws \in seqs }
            \cup { AroundNumber(ws, 1, "5") : ws \in { x \in seqs : Len(x) <= 4 } }

MaxExponent == 3

\* the literals of RE_NUMBER, each part with what it stands for: the integer
\* part, the separator with the fractional digits, and the exponent; a
\* literal has a digit first, or a separator and a digit
Literals ==
    LET IntParts ==
            { [text |-> "", val |-> 0], [text |-> "0", val |-> 0],
              [text |-> "5", val |-> 5], [text |-> "12", val |-> 12] }
        FracParts ==
            { [text |-> "", num |-> 0, digits |-> 0], [text |-> ".", num |-> 0, digits |-> 0],
              [text |-> ".5", num |-> 5, digits |-> 1], [text |-> ",25", num |-> 25, digits |-> 2],
              [text |-> ",7", num |-> 7, digits |-> 1], [text |-> ".50", num |-> 50, digits |-> 2] }
        ExpParts ==
            { [text |-> "", exp |-> 0] }
                \cup { [text |-> e \o NatToStr(k), exp |-> k] :
                         e \in {"e", "E", "e+"}, k \in 0..MaxExponent }
                \cup { [text |-> "e-" \o NatToStr(k), exp |-> 0 - k] : k \in 0..MaxExponent }
    IN  { l \in [int : IntParts, frac : FracParts, exp : ExpParts] :
            l.int.text # "" \/ l.frac.digits > 0 }

LiteralText(l) == l.int.text \o l.frac.text \o l.exp.text

\* a literal first, then a symbol and a name of the same unit
LiteralInputs == { LiteralText(l) \o " m meters" : l \in Literals }

MaxFiller == 33

\* a unit after (or before) the number, with words that are no tokens in
\* between, and texts with words around the units
VerboseInputs ==
    LET Filler(k) == [ i \in 1..k |-> "x" ]
    IN  { AroundNumber(Filler(k) \o <<"m">>, 0, "5") : k \in 0..MaxFiller }
            \cup { AroundNumber(Filler(k) \o <<"m">>, k + 1, "5") : k \in 0..MaxFiller }
            \cup {"how much is 5 inches in FEET?", "5 multimeters in yards",
                  "multimeters 5 yards", "5 rabbits under pressure", "5,m;in",
                  "5 (feet)--> [m]", "5 sq magnolia in square cm", "5 m_in yards",
                  "5m in yards", "in:5:m", "5 feet/m"}

\* the rows of EXTRA_UNITS_INPUT whose name has several words
PhraseRows == { i \in DOMAIN EXTRA_UNITS_INPUT : HasSpace(EXTRA_UNITS_INPUT[i][1]) }

\* every name of several words after a number, alone and with its own
\* canonical name as the destination
PhraseInputs ==
    { "0 " \o EXTRA_UNITS_INPUT[i][1] : i \in PhraseRows }
        \cup { "1 " \o EXTRA_UNITS_INPUT[i][1] \o " in " \o EXTRA_UNITS_INPUT[i][2] : i \in PhraseRows }
        \cup {"3 metric ton in kilograms", "2 fluid ounces in cups", "1 sq m in square cm",
              "sq m 0 sq miles", "5 square sq m", "0 cubic mi cubic m"}

\* the keys of the token index as they are typed: all but the marker keys,
\* which the substitutions of lines 483-486 produce
TypedTokens == { k \in DOMAIN Units : Lower(k) = k }

\* the texts of the unit handling: markers, connectors, literals, long texts,
\* names of several words, a unit to itself, a unit alone, and units with a
\* multiplier (hectare, milligram, millilitre) and without, as source and as
\* destination
UnitInputs ==
    LET IdentityInputs ==
            { n \o " " \o u \o " in " \o u : n \in {"3", "2.5", "0.12346"}, u \in TypedTokens }
        \* one token: the number 0 keeps the factors of the engine out of the
        \* arithmetic, which the volumes and the square miles would overflow
        SingleInputs ==
            { "0 " \o u : u \in TypedTokens }
                \cup { "3 " \o u : u \in {"m", "y", "c", "f", "ounce", "°c", "°f", "in", "kg",
                                            "feet", "metric ton", "k", "s", "mg"} }
        MultiplierInputs ==
            { n \o " " \o p[1] \o " in " \o p[2] :
                n \in {"1", "5", "100", "2.5"},
                p \in { <<"hectares", "ares">>, <<"ares", "hectares">>, <<"hectare", "sq kilometer">>,
                        <<"sq km", "hectares">>, <<"hectares", "hectares">>, <<"hectares", "m2">>,
                        <<"mg", "g">>, <<"g", "mg">>, <<"mg", "kg">>, <<"ml", "l">>, <<"l", "ml">>,
                        <<"ml", "mg">>, <<"kg", "g">>, <<"ares", "m2">>, <<"ml", "millilitres">> } }
                \cup {"100 hectare sq kilometer", "hectare 1 sq kilometer", "1 are square meter",
                      "0 hectare", "5 mg", "5 ml"}
    IN  MarkInputs \cup ConnectorInputs \cup LiteralInputs \cup VerboseInputs
            \cup PhraseInputs \cup MultiplierInputs \cup IdentityInputs \cup SingleInputs

NextUnits ==
    \/ \E s \in UnitInputs : Call(s)
    \/ Step
    \/ Return

SpecUnits == Init /\ [][NextUnits]_vars

(***************************************************************************)
(* Properties of convert().                                                *)
(***************************************************************************)
\* the call has made its pairing: lines 555-557 have run
Paired == t_from # ""

\* the tokens the two loops matched
Matched == matched_before \o matched_after

\* C1: every call of convert ends with a sentence or with None; no input
\* makes it raise an exception.
C1_SentenceOrNone == pc = "done" => result.kind \in {"text", "none"}

\* the candidate units of a token: those of the index, none for any other token
Candidates(token) == IF token \in DOMAIN Units THEN Units[token] ELSE <<>>

\* the pairs of candidates of the two tokens with the same dimensionality
Compatible(token_from, token_to) ==
    { p \in (DOMAIN Candidates(token_from)) \X (DOMAIN Candidates(token_to)) :
        Dimensionality(Supported[Candidates(token_from)[p[1]]][3])
            = Dimensionality(Supported[Candidates(token_to)[p[2]]][3]) }

\* C2: the pairing gives a pair of units if and only if exactly one pair of
\* the cross product of the two tokens' candidates has the same
\* dimensionality, and then gives that pair; otherwise it gives None and
\* convert returns None.
C2_ExactlyOnePair ==
    Paired =>
        LET compatible == Compatible(t_from, t_to)
        IN  IF Cardinality(compatible) = 1
            THEN LET p == CHOOSE q \in compatible : TRUE
                 IN  units_info = << <<UnitInfo(Candidates(t_from)[p[1]]),
                                       UnitInfo(Candidates(t_to)[p[2]])>> >>
            ELSE /\ units_info = <<>>
                 /\ pc = "done"
                 /\ result = ReturnNone

C4_SingleUnit ==
    (pc = "done" /\ Len(Matched) = 1) =>
        LET token == Matched[1]
            candidates == Candidates(token)
            with_entry == { i \in DOMAIN candidates : candidates[i] \in DOMAIN Suggested }
        IN  IF with_entry = {}
            THEN result = ReturnNone
            ELSE /\ ~found_tokens_before
                 /\ t_from = token
                 /\ t_to = Suggested[candidates[Min(with_entry)]]

\* C5: with no token matched, the number facts are consulted if and only if
\* the numeric literal covers the whole normalised text; otherwise convert
\* returns None and consults nothing.  The facts are consulted on no other
\* path.
C5_ZeroTokenPath ==
    /\ (pc = "done" /\ m # <<>> /\ number # <<>> /\ Matched = <<>>) =>
          /\ numbers_info_called <=> (m[1].start = 0 /\ m[1].end = Len(text))
          /\ ~numbers_info_called =>
                (result = ReturnNone /\ results = <<>> /\ choices = <<>>)
    /\ numbers_info_called => (Matched = <<>> /\ tokens = <<>>)

\* a number between spaces is alone, and has a fact
C5_Witness ==
    /\ pc = "done"
    /\ numbers_info_called
    /\ result.kind = "text"
    /\ source # text

\* the message of a fact for a number, by the three ranges in exact arithmetic
RangeKind(n, v) ==
    IF RLeq(RMul(v, R(4, 10)), n) /\ RLeq(n, RMul(v, R(6, 10))) THEN "half"
    ELSE IF RLeq(RMul(v, R(9, 10)), n) /\ RLeq(n, RMul(v, R(11, 10))) THEN "close"
    ELSE IF RLeq(RMul(v, R(17, 10)), n) /\ RLeq(n, RMul(v, R(100, 1))) THEN "times"
    ELSE ""

\* C6: a fact with value v matches a number n with "about half of" iff
\* 0.4*v <= n <= 0.6*v, else with "close to" iff 0.9*v <= n <= 1.1*v, else
\* with "around k times", k = round(n/v), iff 1.7*v <= n <= 100*v, and not
\* otherwise; every bound is inclusive.
C6_Classification ==
    numbers_info_called =>
        \A i \in DOMAIN NUMBERS_INFO :
            LET n == number[1].val
                v == NUMBERS_INFO[i][1]
                entries == { k \in DOMAIN results : results[k].fact = i }
            IN  IF RangeKind(n, v) = ""
                THEN entries = {}
                ELSE /\ Cardinality(entries) = 1
                     /\ \A k \in entries :
                           /\ results[k].kind = RangeKind(n, v)
                           /\ results[k].kind = "times" =>
                                 \E mult \in 1..101 :
                                    /\ RLeq(R(2 * Abs(RSub(RMul(R(mult, 1), v), n).n),
                                              RSub(RMul(R(mult, 1), v), n).d), v)
                                    /\ results[k].text = FactText(number[1], i, "times")
                                    /\ FactMult(number[1], i) = mult

\* the entries of results whose sentences went to the choice
Chosen == { k \in DOMAIN results : \E j \in DOMAIN choices : choices[j] = results[k].text }

\* the entry of results with the sentence s
EntryOf(s) == CHOOSE k \in DOMAIN results : results[k].text = s

\* C7: the candidates of the random choice are the sentences of the matching
\* facts by ascending distance, cut to the first NUMBERS_UNCERTAINTY; the
\* result is one of them, so never a fact that is not among the closest;
\* with NUMBERS_UNCERTAINTY = 1 it is the closest one; with no matching fact
\* it is None.
C7_Selection ==
    (pc = "done" /\ numbers_info_called) =>
        /\ Len(choices) = Min({numbers_uncertainty, Len(results)})
        /\ \A j \in DOMAIN choices : \E k \in DOMAIN results : results[k].text = choices[j]
        /\ \A j, k \in DOMAIN choices : j # k => choices[j] # choices[k]
        /\ \A j, k \in DOMAIN choices :
              j < k => RLeq(results[EntryOf(choices[j])].distance,
                            results[EntryOf(choices[k])].distance)
        /\ \A k \in DOMAIN results : \A j \in Chosen :
              k \notin Chosen => RLeq(results[j].distance, results[k].distance)
        /\ IF results = <<>>
           THEN result = ReturnNone
           ELSE /\ result.kind = "text"
                /\ \E j \in DOMAIN choices : result.text = choices[j]
        /\ (numbers_uncertainty = 1 /\ results # <<>>) =>
              \A k \in DOMAIN results :
                 RLeq(results[EntryOf(result.text)].distance, results[k].distance)

\* more facts match than are offered, and the last one offered was chosen
C7_Witness ==
    /\ pc = "done"
    /\ numbers_info_called
    /\ numbers_uncertainty = NUMBERS_UNCERTAINTY
    /\ Len(results) > numbers_uncertainty
    /\ result.text = choices[numbers_uncertainty]
    /\ results[1].text \notin SeqToSet(choices)

\* the text holds no digit, so no numeric literal
NoDigit(s) == \A i \in 1..Len(s) : ~IsDigit(At(s, i))

\* C8: if the normalised text holds no numeric literal, convert returns None
\* whatever tokens it holds; it attempts no conversion and no facts lookup.
C8_NoNumber ==
    (pc = "done" /\ NoDigit(text)) =>
        /\ result = ReturnNone
        /\ m = <<>>
        /\ ~numbers_info_called
        /\ ~Paired
        /\ units_info = <<>>
        /\ converted = <<>>

\* two units and no number
C8_Witness ==
    /\ pc = "done"
    /\ NoDigit(text)
    /\ Len(TokensOf(text)) = 2
    /\ \A i \in 1..2 : TokensOf(text)[i] \in DOMAIN Units

\* the value of a rounded magnitude, in ten-thousandths
TenThousandths(r) == IF r.neg THEN -(r.whole * 10000 + r.frac) ELSE r.whole * 10000 + r.frac

\* the value of a decimal numeral: an optional "-", digits, and optionally a
\* point and digits
NumeralValue(s) ==
    LET neg  == At(s, 1) = "-"
        body == IF neg THEN SubSeq(s, 2, Len(s)) ELSE s
        dots == { i \in 1..Len(body) : At(body, i) = "." }
        dot  == IF dots = {} THEN Len(body) + 1 ELSE Min(dots)
        frac == SubSeq(body, dot + 1, Len(body))
        abs  == RAdd(R(ToNat(SubSeq(body, 1, dot - 1)), 1), R(ToNat(frac), Pow(10, Len(frac))))
    IN  IF neg THEN RNeg(abs) ELSE abs

\* C9: the magnitude is rounded to 4 decimals; a whole rounded value is
\* rendered as an integer with no point; any other is rendered with its
\* decimals and no trailing zero: between one and four digits after the
\* point, the last of them not 0.  The rendering reads back as the rounded
\* value.
C9_Formatting ==
    rounded # <<>> =>
        LET r == rounded[1]
            value == R(TenThousandths(r), 10000)
            x == converted[1]
            \* |x| = q + rem / x.d; over the common denominator of x.d and
            \* 10000 the rounded value differs from |x| by diff / common
            q == Abs(x.n) \div x.d
            rem == Abs(x.n) % x.d
            g == GCD(x.d, 10000)
            common == (x.d \div g) * 10000
            diff == (r.whole - q) * common + r.frac * (x.d \div g) - rem * (10000 \div g)
            points == { i \in 1..Len(nicer_res) : At(nicer_res, i) = "." }
            digits == IF r.neg /\ TenThousandths(r) # 0
                      THEN SubSeq(nicer_res, 2, Len(nicer_res)) ELSE nicer_res
        IN  /\ r.neg = (x.n < 0)
            /\ 2 * Abs(diff) <= common
            /\ r.neg /\ TenThousandths(r) # 0 => At(nicer_res, 1) = "-"
            /\ \A i \in 1..Len(digits) : IsDigit(At(digits, i)) \/ At(digits, i) = "."
            /\ REq(NumeralValue(nicer_res), value)
            /\ IF r.frac = 0
               THEN points = {}
               ELSE /\ Cardinality(points) = 1
                    /\ Len(nicer_res) - Min(points) \in 1..4
                    /\ At(nicer_res, Len(nicer_res)) \notin {"0", "."}

\* a magnitude whose four decimals end in zeros that were stripped
C9_Witness ==
    /\ pc = "done"
    /\ rounded # <<>>
    /\ rounded[1].frac # 0
    /\ rounded[1].frac % 100 = 0
    /\ result.kind = "text"

\* C10: the destination side takes the singular template iff the rounded
\* magnitude is 1, the source side iff the parsed number is 1 ("1.0" too),
\* each whatever the other takes, and the sentence is the source template
\* filled with the number, " = ", and the destination template filled with
\* the magnitude.
C10_SingularPlural ==
    (pc = "done" /\ rounded # <<>>) =>
        LET unit_from == units_info[1][1]
            unit_to == units_info[1][2]
        IN  /\ human_to = IF TenThousandths(rounded[1]) = 10000
                          THEN unit_to.human_single ELSE unit_to.human_plural
            /\ human_from = IF REq(number[1].val, R(1, 1))
                            THEN unit_from.human_single ELSE unit_from.human_plural
            /\ result = ReturnText(Format(human_from, nicer_orig) \o " = "
                                       \o Format(human_to, nicer_res))

\* a number that is not 1 gives a magnitude of 1: plural source, singular
\* destination
C10_Witness ==
    /\ pc = "done"
    /\ rounded # <<>>
    /\ TenThousandths(rounded[1]) = 10000
    /\ ~REq(number[1].val, R(1, 1))
    /\ human_to = units_info[1][2].human_single
    /\ human_to # units_info[1][2].human_plural
    /\ human_from = units_info[1][1].human_plural
    /\ human_from # units_info[1][1].human_single

(***************************************************************************)
(* The tables and the token index.                                         *)
(***************************************************************************)
\* C11: every name an entry of the token index can denote is a key of
\* SUPPORTED_UNITS: the targets of EXTRA_UNITS_INPUT and of UNIT_SYMBOLS and,
\* for a linear symbol, 'square_<unit>' and 'cubic_<unit>'; so building the
\* index raises no KeyError and every candidate of every entry of the index
\* is in the catalog.
C11_AliasTargets ==
    LET catalog == DOMAIN tables.SUPPORTED_UNITS
    IN  /\ \A i \in DOMAIN EXTRA_UNITS_INPUT : EXTRA_UNITS_INPUT[i][2] \in catalog
        /\ \A i \in DOMAIN UNIT_SYMBOLS : UNIT_SYMBOLS[i][2] \in catalog
        /\ \A i \in LinearRows :
              /\ ("square_" \o UNIT_SYMBOLS[i][2]) \in catalog
              /\ ("cubic_" \o UNIT_SYMBOLS[i][2]) \in catalog
        /\ InitKeyErrors = {}
        /\ \A key \in DOMAIN unit_manager.units :
              /\ unit_manager.units[key] # <<>>
              /\ \A j \in DOMAIN unit_manager.units[key] :
                    unit_manager.units[key][j] \in catalog

\* a call resolves a symbol with a square mark through its derived entry
C11_Witness ==
    /\ pc = "convert"
    /\ t_from \in SquareKeys
    /\ t_to \in CubicKeys \cup SquareKeys
    /\ units_info[1][1] = UnitInfo(unit_manager.units[t_from][1])

\* C12: UNITS_OUTPUT and SUPPORTED_UNITS have the same keys, so both units of
\* a pair get_units_info returns carry the templates of UNITS_OUTPUT.
C12_OutputKeys ==
    /\ DOMAIN tables.UNITS_OUTPUT = DOMAIN tables.SUPPORTED_UNITS
    /\ Keys(UNITS_OUTPUT) = Keys(SUPPORTED_UNITS)
    /\ units_info # <<>> =>
          \A side \in 1..2 :
             \E name \in DOMAIN tables.SUPPORTED_UNITS \cap DOMAIN tables.UNITS_OUTPUT :
                /\ units_info[1][side].unit = tables.SUPPORTED_UNITS[name][3]
                /\ units_info[1][side].mult = tables.SUPPORTED_UNITS[name][2]
                /\ units_info[1][side].human_single = tables.UNITS_OUTPUT[name][2]
                /\ units_info[1][side].human_plural = tables.UNITS_OUTPUT[name][3]

\* get_units_info has returned a pair
C12_Witness ==
    /\ pc = "convert"
    /\ units_info # <<>>
    /\ units_info[1][1].human_plural = tables.UNITS_OUTPUT["square_yard"][3]
    /\ units_info[1][2].human_single = tables.UNITS_OUTPUT["square_meter"][2]

\* C13: every key and every value of SUGGESTED_SECOND_UNIT is a key of
\* SUPPORTED_UNITS, so the unit appended for a single token is a token of the
\* index.
C13_SuggestedKeys ==
    LET catalog == DOMAIN tables.SUPPORTED_UNITS
    IN  /\ \A i \in DOMAIN SUGGESTED_SECOND_UNIT :
              /\ SUGGESTED_SECOND_UNIT[i][1] \in catalog
              /\ SUGGESTED_SECOND_UNIT[i][2] \in catalog
        /\ \A k \in DOMAIN tables.SUGGESTED_SECOND_UNIT :
              k \in catalog /\ tables.SUGGESTED_SECOND_UNIT[k] \in catalog
        /\ (pc = "pair" /\ Len(matched_before \o matched_after) = 1) =>
              /\ Len(tokens) = 2
              /\ tokens[2] \in catalog
              /\ tokens[2] \in DOMAIN unit_manager.units
              /\ tokens[2] \in unit_manager.useful_tokens

\* a single token got its suggested second unit
C13_Witness ==
    /\ pc = "pair"
    /\ matched_after = <<"m" \o SUPERSCRIPT_TWO>>
    /\ matched_before = <<>>
    /\ tokens = <<"m" \o SUPERSCRIPT_TWO, tables.SUGGESTED_SECOND_UNIT["square_meter"]>>

\* C14: whatever calls were made, the objects the calls share are as they were
\* built: the catalog, the templates, the suggestion table, the connector list
\* and the unit manager's index, useful_tokens, complex_units and connectors;
\* and between two calls nothing of a call is left, so a conversion starts
\* from the same state whatever came before it.
C14_Stateless ==
    /\ tables = ModuleTables
    /\ unit_manager = UnitManager
    /\ unit_manager.units = Units
    /\ unit_manager.useful_tokens = UsefulTokens
    /\ unit_manager.complex_units = ComplexUnits
    /\ unit_manager.connectors = CONNECTORS
    /\ tables.CONNECTORS = CONNECTORS
    /\ pc = "idle" =>
          /\ tokens = <<>> /\ ~found_tokens_before
          /\ text = "" /\ m = <<>> /\ number = <<>>
          /\ t_from = "" /\ t_to = "" /\ units_info = <<>>

\* a call that went through the suggestion has ended: the token list got the
\* suggested unit and the index entry of the token is as it was
C14_Witness ==
    /\ pc = "done"
    /\ result.kind = "text"
    /\ matched_before \o matched_after = <<"m">>
    /\ tokens = <<"m", "yard">>
    /\ unit_manager.units["m"] = <<"meter", "month">>

WithoutAt(ts, i) == [ j \in 1..(Len(ts) - 1) |-> IF j < i THEN ts[j] ELSE ts[j + 1] ]

\* ts without the first c, if it has one
WithoutFirst(ts, c) ==
    IF \E j \in DOMAIN ts : ts[j] = c
    THEN WithoutAt(ts, CHOOSE j \in DOMAIN ts : ts[j] = c /\ \A k \in 1..(j - 1) : ts[k] # c)
    ELSE ts

\* C16: with more than two matched tokens, the first 'to' is taken out and, if
\* that does not leave two tokens, the first 'in', stopping when two tokens
\* remain; two tokens left by taking out a connector go on to the pairing
\* ('5 feet to in' goes on as feet and in, the inch), and when no removal
\* leaves two tokens convert returns None before any pairing.
C16_ConnectorStripping ==
    LET matched == Matched
        has_to == \E j \in DOMAIN matched : matched[j] = "to"
        no_to == WithoutFirst(matched, "to")
        has_in == \E j \in DOMAIN no_to : no_to[j] = "in"
        no_in == WithoutFirst(no_to, "in")
    IN  (pc \in {"pair", "convert", "format", "done"} /\ Len(matched) > 2) =>
           /\ (has_to /\ Len(no_to) = 2) =>
                 tokens = no_to /\ (pc = "pair" \/ t_from # "")
           /\ (~(has_to /\ Len(no_to) = 2) /\ has_in /\ Len(no_in) = 2) =>
                 tokens = no_in /\ (pc = "pair" \/ t_from # "")
           /\ (~(has_to /\ Len(no_to) = 2) /\ ~(has_in /\ Len(no_in) = 2)) =>
                 pc = "done" /\ result = ReturnNone /\ t_from = ""
           /\ (source = "5 feet to in" /\ pc = "done") =>
                 /\ tokens = <<"feet", "in">>
                 /\ units_info # <<>>
                 /\ units_info[1][2] = UnitInfo("inch")
                 /\ result = ReturnText("5 feet = 60 inches")

\* both connectors had to go: four tokens, first 'to' then 'in' taken out
C16_Witness ==
    /\ pc = "done"
    /\ Matched = <<"feet", "to", "in", "m">>
    /\ tokens = <<"feet", "m">>
    /\ result.kind = "text"

(***************************************************************************)
(* The numeric literal.                                                    *)
(***************************************************************************)
\* integer part + fractional digits / 10^(their count), times 10^exponent
LiteralValue(l) ==
    LET mantissa == RAdd(R(l.int.val, 1), R(l.frac.num, Pow(10, l.frac.digits)))
    IN  IF l.exp.exp >= 0 THEN RMul(mantissa, R(Pow(10, l.exp.exp), 1))
        ELSE RMul(mantissa, R(1, Pow(10, 0 - l.exp.exp)))

\* C17: the number convert takes from a text that begins with a literal of the
\* grammar is the literal's value: integer part (0 if absent) plus fractional
\* digits over 10^(their count), times 10^exponent if there is an exponent;
\* and that number is the one converted.
C17_LiteralValue ==
    \A l \in Literals :
        (source = LiteralText(l) \o " m meters" /\ pc \in {"collect", "select", "pair", "convert", "format", "done"}) =>
            /\ number # <<>>
            /\ REq(number[1].val, LiteralValue(l))
            /\ pc = "done" => (converted # <<>> /\ REq(converted[1], LiteralValue(l)))

(***************************************************************************)
(* Token collection.                                                       *)
(***************************************************************************)
\* the maximal runs of word characters of s, in text order
Words(s) ==
    LET starts == { i \in 1..Len(s) : IsWordChar(At(s, i)) /\ ~IsWordChar(At(s, i - 1)) }
        EndOf(i) == Min({ j \in i..Len(s) : ~IsWordChar(At(s, j + 1)) })
        Nth(k) == CHOOSE i \in starts : Cardinality({ j \in starts : j <= i }) = k
    IN  [ k \in 1..Cardinality(starts) |-> SubSeq(s, Nth(k), EndOf(Nth(k))) ]

\* the words of s that are known tokens: a key of the index or a connector
KnownWords(s) ==
    LET Known(w) == w \in DOMAIN Units \/ w \in SeqToSet(CONNECTORS)
    IN  SelectSeq(Words(s), Known)

\* C18: every maximal run of word characters before the number and after it is
\* a candidate, however many separators the text has; the tokens collected
\* are the candidates that are known tokens, in text order, those before the
\* number first; a word that only contains a unit name is no token.
C18_TokenCollection ==
    (number # <<>> /\ pc \in {"select", "pair", "convert", "format", "done"}) =>
        LET before == SubSeq(text, 1, m[1].start)
            after == SubSeq(text, m[1].end + 1, Len(text))
        IN  /\ matched_before = KnownWords(before)
            /\ matched_after = KnownWords(after)
            /\ pc = "select" => tokens = KnownWords(before) \o KnownWords(after)
            /\ \A i \in DOMAIN Matched : Matched[i] # "multimeters"
            /\ source = "5 multimeters in yards" => Matched = <<"in", "yards">>

(***************************************************************************)
(* Names of several words.                                                 *)
(***************************************************************************)
\* C19: a name of several words after the number is replaced as a whole by
\* its canonical unit, also when a shorter name is a prefix of it ('sq m' of
\* 'sq miles', 'cubic m' of 'cubic mi'), and no shorter name matches in what
\* the replacement left; the source of the conversion is that unit.
C19_LongestFirst ==
    \A i \in PhraseRows :
        LET P == EXTRA_UNITS_INPUT[i][1]
            u == EXTRA_UNITS_INPUT[i][2]
            alone == source = "0 " \o P
            with_to == source = "1 " \o P \o " in " \o u
        IN  ((alone \/ with_to) /\ pc \in {"select", "pair", "convert", "format", "done"}) =>
               /\ alone => text = "0 " \o u /\ Matched = <<u>>
               /\ with_to => text = "1 " \o u \o " in " \o u /\ Matched = <<u, "in", u>>
               /\ matched_before = <<>>
               /\ t_from # "" => t_from = u
               /\ units_info # <<>> => units_info[1][1] = UnitInfo(u)
               /\ (with_to /\ pc = "done") => (units_info # <<>> /\ result.kind = "text")
               /\ (alone /\ pc = "done") =>
                     IF u \in DOMAIN tables.SUGGESTED_SECOND_UNIT
                     THEN units_info # <<>> /\ result.kind = "text"
                     ELSE result = ReturnNone

\* 'sq miles', of which the shorter name 'sq m' is a prefix
C19_Witness ==
    /\ pc = "done"
    /\ source = "0 sq miles"
    /\ text = "0 square_mile"
    /\ units_info[1][1] = UnitInfo("square_mile")
    /\ result = ReturnText("0 square miles = 0 square kilometers")

(***************************************************************************)
(* Multipliers of the catalog.                                             *)
(***************************************************************************)
\* C20: the magnitude converted is the number, times the multiplier of the
\* source unit when it has one, taken by the engine to the handle of the
\* destination, divided by the multiplier of the destination when it has
\* one: N hectares are 100 * N ares and N ares are N / 100 hectares, 100
\* hectares are 1 square kilometer and back, and with no multiplier on either
\* side the magnitude is the engine's.
C20_ScaleMultipliers ==
    converted # <<>> =>
        LET unit_from == units_info[1][1]
            unit_to == units_info[1][2]
            N == number[1].val
            hundred == R(100, 1)
            hectare == UnitInfo("hectare")
            are == UnitInfo("are")
            scaled == IF unit_from.mult = <<>> THEN N ELSE RMul(N, unit_from.mult[1])
            engine == EngineTo(scaled, unit_from.unit, unit_to.unit)
        IN  /\ REq(converted[1], IF unit_to.mult = <<>> THEN engine ELSE RDiv(engine, unit_to.mult[1]))
            /\ (unit_from.mult = <<>> /\ unit_to.mult = <<>>) =>
                   converted[1] = EngineTo(N, unit_from.unit, unit_to.unit)
            /\ (unit_from = hectare /\ unit_to = are) => REq(converted[1], RMul(hundred, N))
            /\ (unit_from = are /\ unit_to = hectare) => REq(RMul(hundred, converted[1]), N)
            /\ (unit_from = hectare /\ unit_to = hectare) => REq(converted[1], N)
            /\ (unit_from = hectare /\ unit_to.mult = <<>>) =>
                   REq(converted[1], EngineTo(RMul(hundred, N), are.unit, unit_to.unit))
            /\ (unit_to = hectare /\ unit_from.mult = <<>>) =>
                   REq(RMul(hundred, converted[1]), EngineTo(N, unit_from.unit, are.unit))
            /\ (source = "100 hectare sq kilometer" /\ pc = "done") =>
                   result = ReturnText("100 hectares = 1 square kilometer")
            /\ (source = "hectare 1 sq kilometer" /\ pc = "done") =>
                   result = ReturnText("1 square kilometer = 100 hectares")

\* a destination with a multiplier: square kilometers to hectares
C20_Witness ==
    /\ source = "hectare 1 sq kilometer"
    /\ pc = "done"
    /\ units_info # <<>> /\ units_info[1][2] = UnitInfo("hectare")
    /\ converted = <<R(100, 1)>>
    /\ result = ReturnText("1 square kilometer = 100 hectares")

(***************************************************************************)
(* A unit converted to itself.                                             *)
(***************************************************************************)
\* the numbers of the texts 'N u in u', with their values
IdentityNumbers == { <<"3", R(3, 1)>>, <<"2.5", R(5, 2)>>, <<"0.12346", R(12346, 100000)>> }

\* the call of 'N u in u' has returned
IdentityDone(u, n) == source = n[1] \o " " \o u \o " in " \o u /\ pc = "done"

\* a sentence with one unit on both sides and the magnitude N
IdentitySentence(u, n) ==
    /\ result.kind = "text"
    /\ units_info # <<>>
    /\ units_info[1][1] = units_info[1][2]
    /\ \E i \in DOMAIN Units[u] : units_info[1][1] = UnitInfo(Units[u][i])
    /\ converted # <<>> /\ REq(converted[1], n[2])

\* C21 as stated: 'N u in u' gives, for every token u of the index, a
\* sentence with the same canonical unit on both sides and the magnitude N.
C21_IdentityEveryToken ==
    \A u \in TypedTokens : \A n \in IdentityNumbers :
        IdentityDone(u, n) => IdentitySentence(u, n)

\* C21: 'N u in u' gives, for every token u of word characters that names
\* one canonical unit, a sentence with that unit on both sides whose
\* destination magnitude is N rounded to four decimals; for a token that
\* names several units (m, y, c, f, oz, ozs, ounce, ounces) every candidate
\* pairs with itself, the pairing is ambiguous and convert returns None, and
\* so it does for the symbols with a degree sign, which are read as c and f.
C21_IdentityOneCandidate ==
    \A u \in TypedTokens : \A n \in IdentityNumbers :
        IdentityDone(u, n) =>
            IF Len(Units[u]) = 1 /\ \A c \in Chars(u) : IsWordChar(c) \/ c = " "
            THEN /\ IdentitySentence(u, n)
                 /\ units_info[1][1] = UnitInfo(Units[u][1])
                 /\ rounded # <<>> /\ rounded[1] \in Round4(n[2])
                 /\ human_from = human_to
                 /\ result.text = Sentence(human_from, n[1], human_to, NicerRes(rounded[1]))
            ELSE result = ReturnNone /\ units_info = <<>>

\* the identity of the repository's test
C21_Witness ==
    /\ source = "3 metric ton in metric ton"
    /\ pc = "done"
    /\ converted = <<R(3, 1)>>
    /\ result = ReturnText("3 metric tons = 3 metric tons")

(***************************************************************************)
(* The token list at the pairing.                                          *)
(***************************************************************************)
\* C22: when convert reaches lines 555-556 the list tokens has exactly two
\* elements, so tokens[0] and tokens[1] exist: with no token matched the
\* call has left before, one token matched is followed by its suggestion,
\* two are kept as they are, and of more than two exactly two are left after
\* the connectors were removed; t_from and t_to are these two.
C22_TwoTokens ==
    /\ pc = "pair" => Len(tokens) = 2
    /\ (pc = "pair" \/ Paired) =>
          /\ Len(tokens) = 2
          /\ Len(Matched) >= 1
          /\ Len(Matched) = 1 => tokens = <<Matched[1]>> \o Suggest(Matched[1])
          /\ Len(Matched) = 2 => tokens = Matched
          /\ Len(Matched) > 2 =>
                /\ Len(Matched) <= 2 + Len(CONNECTORS)
                /\ \E c \in SeqToSet(CONNECTORS) : c \in SeqToSet(Matched)
                /\ SeqToSet(tokens) \subseteq SeqToSet(Matched)
    /\ Paired => <<t_from, t_to>> \in { <<tokens[1], tokens[2]>>, <<tokens[2], tokens[1]>> }
    /\ (pc = "done" /\ Len(Matched) = 0) => ~Paired
    /\ (pc = "done" /\ Len(Matched) > 2 + Len(CONNECTORS)) => ~Paired /\ result = ReturnNone

\* four tokens matched, two of them connectors, two left at the pairing
C22_Witness ==
    /\ pc = "pair"
    /\ Len(Matched) = 4
    /\ Len(tokens) = 2
    /\ \A i \in DOMAIN tokens : tokens[i] \notin SeqToSet(CONNECTORS)

(***************************************************************************)
(* Which token is the destination.                                         *)
(***************************************************************************)
\* C23: when found_tokens_before makes tokens[0] the destination, tokens[0]
\* was matched before the number; after the removal of connectors the flag is
\* never true with both tokens from after the number.
C23_DestinationBefore ==
    (Paired /\ found_tokens_before) =>
        /\ t_to = tokens[1]
        /\ tokens[1] \in SeqToSet(matched_before)

(***************************************************************************)
(* The suggestion of a second unit.                                        *)
(***************************************************************************)
\* the first candidate of a token with an entry in the table of suggestions:
\* <<>> when no candidate has one
Suggesting(token) ==
    LET with_entry == { i \in DOMAIN Units[token] : Units[token][i] \in DOMAIN Suggested }
    IN  IF with_entry = {} THEN <<>>
        ELSE <<Units[token][CHOOSE i \in with_entry : \A j \in with_entry : i <= j]>>

\* C24: for every token of the index with a candidate that has a suggestion,
\* the token and the suggested unit have exactly one pair of candidates of
\* the same dimensionality, whose source is the candidate the suggestion
\* came from; a text with the number and that token alone returns a
\* sentence from that candidate to the suggested unit, never None.
C24_SuggestionConverts ==
    /\ pc = "select" =>
          \A token \in DOMAIN Units :
              Suggesting(token) # <<>> =>
                  LET unit == Suggesting(token)[1]
                      suggested == Suggested[unit]
                  IN  /\ suggested \in DOMAIN Units
                      /\ Cardinality(Compatible(token, suggested)) = 1
                      /\ \A p \in Compatible(token, suggested) :
                            Units[token][p[1]] = unit /\ Units[suggested][p[2]] = suggested
    /\ (pc = "done" /\ Len(Matched) = 1 /\ Matched[1] \in DOMAIN Units
           /\ Suggesting(Matched[1]) # <<>>) =>
          LET unit == Suggesting(Matched[1])[1]
          IN  /\ tokens = <<Matched[1], Suggested[unit]>>
              /\ units_info = << <<UnitInfo(unit), UnitInfo(Suggested[unit])>> >>
              /\ converted # <<>>
              /\ result.kind = "text"
    /\ (pc = "done" /\ Len(Matched) = 1 /\ Matched[1] \in DOMAIN Units
           /\ Suggesting(Matched[1]) = <<>>) => result = ReturnNone

\* 'm' alone: meter gives the suggestion and month stays out of the pairing
C24_Witness ==
    /\ source = "3 m"
    /\ pc = "done"
    /\ Units["m"] = <<"meter", "month">>
    /\ tokens = <<"m", "yard">>
    /\ units_info # <<>> /\ units_info[1][1] = UnitInfo("meter")
    /\ result = ReturnText("3 meters = 3.2808 yards")

\* C25: a token alone in the text gets the source unit and the suggested
\* destination of every token with the same set of candidates ('ounce',
\* 'ounces', 'oz', 'ozs'): the order of the candidates plays no part.
C25_SameCandidates ==
    (pc = "done" /\ Len(Matched) = 1 /\ Matched[1] \in DOMAIN Units) =>
        \A other \in DOMAIN Units :
            (SeqToSet(Units[other]) = SeqToSet(Units[Matched[1]]) /\ Suggesting(other) # <<>>) =>
                /\ units_info # <<>>
                /\ units_info[1][1] = UnitInfo(Suggesting(other)[1])
                /\ tokens = <<Matched[1], Suggested[Suggesting(other)[1]]>>
====
